---- MODULE Spec2Model ----
(***************************************************************************)
(* A model of github.com/pschou/go-flowfile: the FlowFile v3 wire codec,   *)
(* the streaming File, the record Scanner, the Segmenter and the HTTP      *)
(* transaction (handshake, POST writer, retry).                            *)
(*                                                                         *)
(* Bytes are the naturals 0..255, a Go string or []byte is a sequence of   *)
(* bytes.  Every sub-system has its own variables and its own              *)
(* specification; the variables of the other sub-systems stay as they      *)
(* are.                                                                    *)
(***************************************************************************)
EXTENDS Integers, Sequences, FiniteSets, TLC

VARIABLES
    \* ---- wire codec: one File encoded, decoded and read back
    cpc,        \* "start" | "encoded" | "decoded" | "read"
    cA,         \* the attributes of the File handed to the encoder
    cC,         \* its content
    cWire,      \* the bytes writeTo produced
    cFile,      \* the File ReadFile returned
    cErr,       \* the error ReadFile returned
    cRest,      \* the bytes of the input not yet consumed
    cOut,       \* the content read from the decoded File
    \* ---- one File and the source under it
    fFile,      \* the File struct
    fData,      \* the bytes of the underlying reader, or of the file on disk
    fPos,       \* the position of the underlying reader (Read and Seek)
    fFh,        \* the os.File a path-backed File opened: "none" | "open" | "closed"
    fStart,     \* where the content starts in the source
    fOp,        \* the last call on the File and what it returned
    fCkStatus,  \* File.cksumStatus
    fCk,        \* the bytes written to File.cksum since it was made
    fSegs,      \* the calls of SegmentBySize so far
    fResets,    \* the calls of Reset so far
    \* ---- ReadFile on an input
    rpc,        \* "off" | "start" | "decoded"
    rIn,        \* the bytes of the input
    rKind,      \* whether the input is an io.Seeker, an io.ReaderAt
    rPos,       \* the position of the input
    rFile,      \* the File returned
    rErr,       \* the error returned
    rOp,        \* the last call on the File returned
    rHdr,       \* the length of the attribute header the input starts with
    \* ---- a Scanner over an input of records
    sRecs,      \* the records the input was encoded from
    sIn,        \* the bytes of the input
    sKind,      \* "seq": the input has Read only; "ra": also Seek and ReadAt
    sPos,       \* the position of the input
    sState,     \* "idle" | "have-record" | "exhausted" | "errored"
    sFile,      \* the current record
    sErr,       \* what the error accessor reports
    sScans,     \* the Scan calls made
    sOp,        \* the last call: "none" | "Scan" | "Read", and what it returned
    \* ---- the Segmenter
    gpc,        \* "start" | "done"
    gIn,        \* the File handed to SegmentBySize
    gParent,    \* that File as it was before the call
    gStart,     \* where its content starts in the source
    gK,         \* segmentSize
    gCount,     \* the count Segment was called with, 0 when SegmentBySize was called
    gOut,       \* the Files returned
    gErr,       \* the error returned
    gUuid,      \* the uuids generated so far
    \* ---- a call of HTTPTransaction.Send
    hpc,        \* "call" | "verify" | "returned"
    hs,         \* the HTTPTransaction
    hFiles,     \* the batch ff
    hBatch,     \* the batch as it was handed to Send
    hLog,       \* what the call did so far: POSTs, Resets, Handshakes
    hErr,       \* err
    hUuid,      \* the uuids generated so far
    \* ---- Handshakes and POSTs running concurrently on one HTTPTransaction
    ths,        \* the HTTPTransaction
    tpc,        \* where the Handshake stands: "idle" | "replied" | "accepted" | "checked"
    tTxid,      \* its txid
    tReply,     \* its res
    tCalls,     \* the calls of Handshake so far
    tPairs,     \* the url and transaction id every successful Handshake left
    tFailed,    \* a Handshake returned an error after it had set the url
    tReq,       \* the request of every doPost, as far as it is built
    tUuid,      \* the uuids generated so far
    \* ---- one HTTPPostWriter
    wKind,      \* "plain" (NewHTTPPostWriter) | "buffered" (NewHTTPBufferedPostWriter)
    wInit,      \* hw.init is not nil
    wLock,      \* who holds hw.writeLock; -1 for nobody
    wClient,    \* hw.client is not nil
    wNil,       \* hw.w is nil
    wBuf,       \* the bytes in the bufio.Writer of the maxLatencyWriter
    wBufErr,    \* that bufio.Writer has met an error
    wPipe,      \* the write side of the pipe: "open" | "eof" | "err"
    wRClosed,   \* the read side of the pipe is closed
    wBody,      \* the bytes of the request body read from the pipe
    wPost,      \* doPost: "none" | "doing" | "replying" | "done"
    wResp,      \* hw.Response: "nil" or its status code
    wPostErr,   \* err of doPost
    wFlush,     \* flushLoop: "none" | "select" | "final" | "done"
    wG,         \* the goroutines that call Write
    wClose,     \* the goroutine that calls Close
    wTerm,      \* Terminate was called
    wOrder,     \* the goroutines in the order in which their Writes got the writer
    wAccepted,  \* the bytes the calls of hw.w.Write accepted, in time order
    \* ---- one HTTPTransaction and the Handshake calls made on it
    kHs,        \* the HTTPTransaction struct
    kOld,       \* the struct before the last Handshake
    kReply,     \* the answer to the HEAD request of the last Handshake
    kTxid,      \* the transaction id the last Handshake sent
    kErr,       \* what the last Handshake returned
    kCalls,     \* the number of Handshake calls
    kUuid,      \* the uuids generated so far
    \* ---- fragments of one parent saved into one target file by concurrent Save calls
    vOrig,      \* the content of the parent
    vFrags,     \* the fragments: segment.original.size, fragment.offset, content
    vEnv,       \* "ok", or "nostat": the target can be neither created nor stat'ed
    vDisk,      \* the target file: exists, data
    vProc,      \* the saveRegular call of each fragment
    vMarks,     \* the offsets of the target that a fragment has written
    \* ---- one attribute set and the calls made on it
    aH,         \* the Attributes
    aOp,        \* the last call: its arguments, the set before it, what it returned
    \* ---- one POST request served by HTTPReceiver.ServeHTTP
    qReq,       \* the request: Content-Type, Content-Length, body
    qState,     \* "request" | "idle" | "have-record" | "exhausted" | "errored" | "served"
    qCh,        \* the Files in the channel of the Scanner
    qFile,      \* the record at hand
    qPos,       \* the bytes taken from the request body
    qGot,       \* the bytes the handler has read from the record at hand
    qScans,     \* the Scan calls of the handler
    qOp,        \* the last call of the handler and what it returned
    \* ---- the fragments of one SegmentBySize call, read and closed in any order
    bpc,        \* "start" | "segmented"
    bData,      \* the bytes of the backing source
    bAuto,      \* in.fileAutoOpen of the File that is segmented
    bFrags,     \* the Files SegmentBySize returned
    bShared,    \* the file handle the parent had opened: "none" | "open" | "closed"
    bOwn,       \* the file handle each fragment opened itself
    bClosed,    \* the fragments Close was called on
    bOp         \* the last call: fragment, call, result, the bytes of the window

codecVars == <<cpc, cA, cC, cWire, cFile, cErr, cRest, cOut>>

fileVars == <<fFile, fData, fPos, fFh, fStart, fOp, fCkStatus, fCk, fSegs, fResets>>

decodeVars == <<rpc, rIn, rKind, rPos, rFile, rErr, rOp, rHdr>>

scanVars == <<sRecs, sIn, sKind, sPos, sState, sFile, sErr, sScans, sOp>>

segVars == <<gpc, gIn, gParent, gStart, gK, gCount, gOut, gErr, gUuid>>

sendVars == <<hpc, hs, hFiles, hBatch, hLog, hErr, hUuid>>

handVars == <<ths, tpc, tTxid, tReply, tCalls, tPairs, tFailed, tReq, tUuid>>

postVars == <<wKind, wInit, wLock, wClient, wNil, wBuf, wBufErr, wPipe, wRClosed, wBody,
              wPost, wResp, wPostErr, wFlush, wG, wClose, wTerm, wOrder, wAccepted>>

shakeVars == <<kHs, kOld, kReply, kTxid, kErr, kCalls, kUuid>>

saveVars == <<vOrig, vFrags, vEnv, vDisk, vProc, vMarks>>

attrsVars == <<aH, aOp>>

recvVars == <<qReq, qState, qCh, qFile, qPos, qGot, qScans, qOp>>

fragVars == <<bpc, bData, bAuto, bFrags, bShared, bOwn, bClosed, bOp>>

\* the variables an action of one part leaves alone
codecRest == <<fileVars, decodeVars, scanVars, segVars, sendVars, handVars, postVars, shakeVars, saveVars, attrsVars, recvVars, fragVars>>

fileRest == <<codecVars, decodeVars, scanVars, segVars, sendVars, handVars, postVars, shakeVars, saveVars, attrsVars, recvVars, fragVars>>

decodeRest == <<codecVars, fileVars, scanVars, segVars, sendVars, handVars, postVars, shakeVars, saveVars, attrsVars, recvVars, fragVars>>

scanRest == <<codecVars, fileVars, decodeVars, segVars, sendVars, handVars, postVars, shakeVars, saveVars, attrsVars, recvVars, fragVars>>

segRest == <<codecVars, fileVars, decodeVars, scanVars, sendVars, handVars, postVars, shakeVars, saveVars, attrsVars, recvVars, fragVars>>

sendRest == <<codecVars, fileVars, decodeVars, scanVars, segVars, handVars, postVars, shakeVars, saveVars, attrsVars, recvVars, fragVars>>

handRest == <<codecVars, fileVars, decodeVars, scanVars, segVars, sendVars, postVars, shakeVars, saveVars, attrsVars, recvVars, fragVars>>

postRest == <<codecVars, fileVars, decodeVars, scanVars, segVars, sendVars, handVars, shakeVars, saveVars, attrsVars, recvVars, fragVars>>

shakeRest == <<codecVars, fileVars, decodeVars, scanVars, segVars, sendVars, handVars, postVars, saveVars, attrsVars, recvVars, fragVars>>

saveRest == <<codecVars, fileVars, decodeVars, scanVars, segVars, sendVars, handVars, postVars, shakeVars, attrsVars, recvVars, fragVars>>

attrsRest == <<codecVars, fileVars, decodeVars, scanVars, segVars, sendVars, handVars, postVars, shakeVars, saveVars, recvVars, fragVars>>

recvRest == <<codecVars, fileVars, decodeVars, scanVars, segVars, sendVars, handVars, postVars, shakeVars, saveVars, attrsVars, fragVars>>

fragRest == <<codecVars, fileVars, decodeVars, scanVars, segVars, sendVars, handVars, postVars, shakeVars, saveVars, attrsVars, recvVars>>

vars == <<codecVars, fileVars, decodeVars, scanVars, segVars, sendVars, handVars, postVars, shakeVars, saveVars, attrsVars, recvVars, fragVars>>

-----------------------------------------------------------------------------
(* Bounds of the model *)

MaxAttrs == 2       \* attributes of an encoded File
MaxContent == 2     \* content bytes of an encoded File
MaxSize == 3        \* declared Size of the File of SpecFile
MaxStart == 1       \* bytes of the source in front of the content
MaxSegmentations == 1   \* calls of SegmentBySize on one File
MaxResets == 1      \* calls of Reset on one File
MaxBuf == 2         \* len(p) of a Read
MaxBody == 2        \* bytes of a posted body that is no record
MaxRecords == 2     \* records of a scanned input
MaxSegSize == 5     \* Size of a segmented File
MaxDone == 1        \* bytes of it read before it is segmented
MaxSendSize == 1    \* Size of a File of a batch
MaxBatch == 2       \* Files of a batch
MaxRetry == 2       \* RetryCount
MaxPosts == 2       \* POST writers of one HTTPTransaction
MaxHandshakes == 2  \* calls of Handshake after the first
MaxParent == 2      \* size of a parent saved from fragments
MaxChunk == 1       \* bytes one Write of io.Copy carries
MaxWriters == 2     \* goroutines that call Write on one HTTPPostWriter
MaxWrites == 1      \* calls of Write of each
MaxCloses == 2      \* calls of Close
BufSize == 3        \* size of the buffer of the bufio.Writer

-----------------------------------------------------------------------------
(* Sequences of bytes *)

Min(a, b) == IF a < b THEN a ELSE b

Max(a, b) == IF a < b THEN b ELSE a

\* s[:k], clipped to the length of s
Take(s, k) == SubSeq(s, 1, Min(k, Len(s)))

\* s[k:], clipped to the length of s
Drop(s, k) == SubSeq(s, Min(k, Len(s)) + 1, Len(s))

\* a buffer of k bytes of which the first Len(s) were filled by a Read
Pad(s, k) == [j \in 1..k |-> IF j <= Len(s) THEN s[j] ELSE 0]

SeqsUpTo(S, k) == UNION {[1..m -> S] : m \in 0..k}

\* the exclusive upper bound of a Go uint16
U16Mod == 65536

\* uint16(n): the conversion keeps the low 16 bits
U16(n) == n % U16Mod

\* binary.Write(out, binary.BigEndian, uint16)
PutU16(n) == <<(n \div 256) % 256, n % 256>>

\* binary.Read(in, binary.BigEndian, &uint16) on the two bytes read
GetU16(b) == b[1] * 256 + b[2]

RECURSIVE PutBE(_, _)
\* the k low bytes of n, most significant first
PutBE(n, k) == IF k = 0 THEN <<>> ELSE PutBE(n \div 256, k - 1) \o <<n % 256>>

RECURSIVE PutLE(_, _)
\* the k low bytes of n, least significant first
PutLE(n, k) == IF k = 0 THEN <<>> ELSE <<n % 256>> \o PutLE(n \div 256, k - 1)

\* binary.Write with binary.LittleEndian: the wrong byte order
PutU64LE(n) == PutLE(n, 8)

\* binary.Write(out, binary.BigEndian, uint64(n))
PutU64(n) == PutBE(n, 8)

\* the bits of every byte flipped
Complement(b) == [j \in 1..Len(b) |-> 255 - b[j]]

RECURSIVE GetBE(_)
\* binary.Read(in, binary.BigEndian, &uint64) on the bytes read
GetBE(b) == IF Len(b) = 0 THEN 0 ELSE GetBE(Take(b, Len(b) - 1)) * 256 + b[Len(b)]

\* int64(N) of the uint64 N read from the 8 bytes b: two's complement
Int64(b) == IF b[1] >= 128 THEN 0 - (GetBE(Complement(b)) + 1) ELSE GetBE(b)

-----------------------------------------------------------------------------
(* Attributes: src/unnamed/part_004 *)

FlowFile3Header == <<78, 105, 70, 105, 70, 70, 51>>     \* "NiFiFF3"

FlowFileEOF == <<78, 105, 70, 105, 69, 79, 70>>         \* "NiFiEOF"

Slash == 47                                             \* '/'

N_filename == <<102, 105, 108, 101, 110, 97, 109, 101>> \* "filename"

N_path == <<112, 97, 116, 104>>                         \* "path"

N_uuid ==    \* "uuid"
    <<117, 117, 105, 100>>

N_fragment_identifier ==    \* "fragment.identifier"
    <<102, 114, 97, 103, 109, 101, 110, 116, 46, 105, 100, 101, 110, 116, 105, 102, 105, 101, 114>>

N_fragment_offset ==    \* "fragment.offset"
    <<102, 114, 97, 103, 109, 101, 110, 116, 46, 111, 102, 102, 115, 101, 116>>

N_fragment_index ==    \* "fragment.index"
    <<102, 114, 97, 103, 109, 101, 110, 116, 46, 105, 110, 100, 101, 120>>

N_fragment_count ==    \* "fragment.count"
    <<102, 114, 97, 103, 109, 101, 110, 116, 46, 99, 111, 117, 110, 116>>

N_segment_original_size ==    \* "segment.original.size"
    <<115, 101, 103, 109, 101, 110, 116, 46, 111, 114, 105, 103, 105, 110, 97, 108, 46, 115, 105, 122, 101>>

N_segment_original_filename ==    \* "segment.original.filename"
    <<115, 101, 103, 109, 101, 110, 116, 46, 111, 114, 105, 103, 105, 110, 97, 108, 46, 102, 105, 108, 101, 110, 97, 109, 101>>

N_segment_original_checksumType ==    \* "segment.original.checksumType"
    <<115, 101, 103, 109, 101, 110, 116, 46, 111, 114, 105, 103, 105, 110, 97, 108, 46, 99, 104, 101, 99, 107, 115, 117, 109, 84, 121, 112, 101>>

N_segment_original_checksum ==    \* "segment.original.checksum"
    <<115, 101, 103, 109, 101, 110, 116, 46, 111, 114, 105, 103, 105, 110, 97, 108, 46, 99, 104, 101, 99, 107, 115, 117, 109>>

N_checksumType ==    \* "checksumType"
    <<99, 104, 101, 99, 107, 115, 117, 109, 84, 121, 112, 101>>

N_checksum ==    \* "checksum"
    <<99, 104, 101, 99, 107, 115, 117, 109>>

N_merge_reason ==    \* "merge.reason"
    <<109, 101, 114, 103, 101, 46, 114, 101, 97, 115, 111, 110>>

V_MAX_BYTES ==    \* "MAX_BYTES_THRESHOLD_REACHED"
    <<77, 65, 88, 95, 66, 89, 84, 69, 83, 95, 84, 72, 82, 69, 83, 72, 79, 76, 68, 95, 82, 69, 65, 67, 72, 69, 68>>

V_SHA256 ==    \* "SHA256"
    <<83, 72, 65, 50, 53, 54>>

V_digest ==    \* "d0"
    <<100, 48>>

V_sha256 ==    \* "sha256"
    <<115, 104, 97, 50, 53, 54>>

V_CRC ==    \* "CRC"
    <<67, 82, 67>>

Attribute(name, val) == [Name |-> name, Value |-> val]

RECURSIVE LastSlash(_)
\* strings.LastIndex(s, "/") + 1: the length of the directory part
LastSlash(s) ==
    IF Len(s) = 0 THEN 0
    ELSE IF s[Len(s)] = Slash THEN Len(s)
    ELSE LastSlash(Take(s, Len(s) - 1))

\* _, file = path.Split(val)
PathSplitFile(val) == Drop(val, LastSlash(val))

\* the index of the first attribute called name, 0 when there is none
IndexOf(h, name) ==
    IF \E j \in 1..Len(h) : h[j].Name = name
    THEN CHOOSE j \in 1..Len(h) :
             /\ h[j].Name = name
             /\ \A k \in 1..(j - 1) : h[k].Name # name
    ELSE 0

\* Attributes.Get
Get(h, name) == IF IndexOf(h, name) = 0 THEN <<>> ELSE h[IndexOf(h, name)].Value

\* Set with the new attribute put in front: what a wrong append would do
SetPrepend(h, name, val) ==
    LET v == IF name = N_filename THEN PathSplitFile(val) ELSE val
        j == IndexOf(h, name)
    IN  IF j # 0 THEN [h EXCEPT ![j].Value = v]
        ELSE <<Attribute(name, v)>> \o h

\* Attributes.Set
Set(h, name, val) ==
    LET v == IF name = N_filename THEN PathSplitFile(val) ELSE val
        j == IndexOf(h, name)
    IN  IF j # 0 THEN [h EXCEPT ![j].Value = v]
        ELSE Append(h, Attribute(name, v))

\* a JSON document as the decoder reads it: an object or something else,
\* and the members of the object, name, value, and whether the value is a
\* string
JSONDoc(object, members) == [object |-> object, members |-> members]

Member(name, val, isString) == [Name |-> name, Value |-> val, isString |-> isString]

\* Attributes.UnmarshalJSON, h the attributes before the call: the
\* attributes are replaced when the whole object was read
UnmarshalJSON(h, doc) ==
    IF ~doc.object THEN [err |-> "ErrorUnmarshallingAttributes", attrs |-> h]
    ELSE IF \E j \in 1..Len(doc.members) : ~doc.members[j].isString
    THEN [err |-> "ErrorUnmarshallingAttributes", attrs |-> h]
    ELSE [err |-> "nil",
          attrs |-> [j \in 1..Len(doc.members) |->
                        Attribute(doc.members[j].Name, doc.members[j].Value)]]

\* Attributes.add
add(h, name, val) == Append(h, Attribute(name, val))

RECURSIVE Unset(_, _)
\* Attributes.Unset: the attributes left
Unset(h, name) ==
    IF Len(h) = 0 THEN <<>>
    ELSE IF h[1].Name = name THEN Unset(Tail(h), name)
    ELSE <<h[1]>> \o Unset(Tail(h), name)

\* Attributes.Clone
Clone(h) == h

RECURSIVE SumOfLengths(_)
\* the loop of HeaderSize: len(a.Value) + len(a.Name) summed over the attributes
SumOfLengths(attrs) ==
    IF attrs = <<>> THEN 0
    ELSE Len(Head(attrs).Value) + Len(Head(attrs).Name) + SumOfLengths(Tail(attrs))

\* File.HeaderSize
HeaderSize(f) == 17 + 4 * Len(f.Attrs) + SumOfLengths(f.Attrs)

RECURSIVE WriteAttrs(_, _)
\* the loop of Attributes.WriteTo over the first k attributes
WriteAttrs(h, k) ==
    IF k = 0 THEN <<>>
    ELSE LET a == h[k]
             ns == U16(Len(a.Name))
             vs == U16(Len(a.Value))
         IN  WriteAttrs(h, k - 1)
                 \o PutU16(ns) \o Take(a.Name, ns)
                 \o PutU16(vs) \o Take(a.Value, vs)

\* Attributes.WriteTo on a bytes.Buffer (no write fails)
AttrsWriteTo(h) ==
    LET attrCount == U16(Len(h))
    IN  FlowFile3Header \o PutU16(attrCount) \o WriteAttrs(h, attrCount)

\* in.Read(buf) of a bytes.Buffer, len(buf) = k: the bytes it returns
BufRead(in, k) == Take(in, k)

\* in.Read(buf) of a bytes.Buffer fails (io.EOF) on an empty buffer unless len(buf) = 0
BufReadFails(in, k) == Len(in) = 0 /\ k > 0

ReadResult(err, h, rest) == [err |-> err, attrs |-> h, rest |-> rest]

RECURSIVE ReadAttrs(_, _, _)
\* the loop of Attributes.ReadFrom: k attributes are still to be read
ReadAttrs(in, k, h) ==
    IF k = 0 THEN ReadResult("nil", h, in)
    ELSE IF Len(in) < 2 THEN ReadResult("ErrorInvalidFlowFileHeader", h, <<>>)
    ELSE
      LET ns == GetU16(Take(in, 2))
          in1 == Drop(in, 2)
      IN
      IF BufReadFails(in1, ns) THEN ReadResult("ErrorInvalidFlowFileHeader", h, in1)
      ELSE
        LET attrName == Pad(BufRead(in1, ns), ns)
            in2 == Drop(in1, ns)
        IN
        IF Len(in2) < 2 THEN ReadResult("ErrorInvalidFlowFileHeader", h, <<>>)
        ELSE
          LET vs == GetU16(Take(in2, 2))
              in3 == Drop(in2, 2)
          IN
          IF BufReadFails(in3, vs) THEN ReadResult("ErrorInvalidFlowFileHeader", h, in3)
          ELSE
            LET attrValue == Pad(BufRead(in3, vs), vs)
                in4 == Drop(in3, vs)
            IN  ReadAttrs(in4, k - 1, Set(h, attrName, attrValue))

\* a ReadFrom that takes whatever is no header for the end of the stream
AttrsReadFromQuiet(in, h) ==
    IF BufReadFails(in, 7) THEN ReadResult("EOF", h, in)
    ELSE
      LET hdr == Pad(BufRead(in, 7), 7)
          in1 == Drop(in, 7)
      IN
      IF hdr # FlowFile3Header THEN ReadResult("EOF", h, in1)
      ELSE IF Len(in1) < 2 THEN ReadResult("EOF", h, <<>>)
      ELSE ReadAttrs(Drop(in1, 2), GetU16(Take(in1, 2)), h)

\* Attributes.ReadFrom, h the attributes before the call
AttrsReadFrom(in, h) ==
    IF BufReadFails(in, 7) THEN ReadResult("EOF", h, in)
    ELSE
      LET hdr == Pad(BufRead(in, 7), 7)
          in1 == Drop(in, 7)
      IN
      IF hdr = FlowFileEOF THEN ReadResult("EOF", h, in1)
      ELSE IF hdr # FlowFile3Header THEN ReadResult("ErrorNoFlowFileHeader", h, in1)
      ELSE IF Len(in1) < 2 THEN ReadResult("ErrorInvalidFlowFileHeader", h, <<>>)
      ELSE ReadAttrs(Drop(in1, 2), GetU16(Take(in1, 2)), h)

-----------------------------------------------------------------------------
(* File: src/file.go *)

NoFile == [Attrs |-> <<>>, i |-> 0, n |-> 0, Size |-> 0,
           r |-> FALSE, ra |-> FALSE, filePath |-> FALSE]

\* the File struct: r and ra say which underlying reader is set, filePath
\* whether the File was made by NewFromDisk
File(attrs, i, n, size, r, ra, filePath) ==
    [Attrs |-> attrs, i |-> i, n |-> n, Size |-> size,
     r |-> r, ra |-> ra, filePath |-> filePath]

\* the byte at place j of a source
SourceByte(j) == j

Source(len) == [j \in 1..len |-> SourceByte(j)]

\* the bytes a loop of File.Read returns until it reports io.EOF, for a File
\* whose reader holds data and, when sequential, stands at pos
FileReadAll(f, data, pos) ==
    IF f.n <= 0 \/ f.Size = 0 THEN <<>>
    ELSE IF f.ra THEN Take(Drop(data, f.i), f.n)
    ELSE Take(Drop(data, pos), f.n)

\* what one call on a File leaves: the File, the position of the sequential
\* source, the state of the os.File handle of a path-backed File, the bytes
\* handed to the caller and the error
FileResult(f, pos, fh, bytes, err) ==
    [f |-> f, pos |-> pos, fh |-> fh, bytes |-> bytes, err |-> err]

\* File.Reset that takes every File for resettable
FileResetAny(f) ==
    IF f.Size = 0 THEN [f |-> f, err |-> "nil"]
    ELSE [f |-> [f EXCEPT !.i = f.i + f.n - f.Size, !.n = f.Size], err |-> "nil"]

\* File.Reset
FileReset(f) ==
    IF f.Size = 0 THEN [f |-> f, err |-> "nil"]
    ELSE IF f.ra \/ f.filePath
    THEN [f |-> [f EXCEPT !.i = f.i + f.n - f.Size, !.n = f.Size], err |-> "nil"]
    ELSE [f |-> f, err |-> "Unable to Reset a non-ReadAt reader"]

\* File.Read(p) with len(p) = k; data are the bytes of the underlying source
FileRead(f, data, pos, fh, k) ==
    IF f.n <= 0 \/ f.Size = 0 THEN FileResult(f, pos, fh, <<>>, "EOF")
    ELSE
      LET opens == f.filePath /\ ~f.ra
          fh1 == IF opens THEN "open" ELSE fh
          p == Min(k, f.n)
          isRa == f.ra \/ opens
          bytes == IF isRa
                   THEN IF f.i < 0 \/ (f.filePath /\ fh1 = "closed") THEN <<>>
                        ELSE Take(Drop(data, f.i), p)
                   ELSE Take(Drop(data, pos), p)
          rerr == IF isRa
                  THEN IF f.i < 0 THEN "negative offset"
                       ELSE IF f.filePath /\ fh1 = "closed" THEN "ErrClosed"
                       ELSE IF Len(bytes) < p THEN "EOF" ELSE "nil"
                  ELSE IF Len(bytes) = 0 THEN "EOF" ELSE "nil"
          f1 == [f EXCEPT !.ra = isRa, !.n = f.n - Len(bytes), !.i = f.i + Len(bytes)]
      IN  FileResult(f1, IF isRa THEN pos ELSE pos + Len(bytes), fh1, bytes,
                     IF rerr = "nil" /\ f1.n <= 0 THEN "EOF" ELSE rerr)

\* File.Close that leaves the rest of the content in a sequential source
FileCloseInPlace(f, data, pos, fh) ==
    IF f.filePath
    THEN IF ~f.ra THEN FileResult(f, pos, fh, <<>>, "panic")
         ELSE IF fh = "open" THEN FileResult(f, pos, "closed", <<>>, "nil")
         ELSE FileResult(f, pos, fh, <<>>, "ErrClosed")
    ELSE IF f.ra \/ f.r
    THEN FileResult([f EXCEPT !.n = 0, !.i = f.i + f.n], pos, fh, <<>>, "nil")
    ELSE FileResult(f, pos, fh, <<>>, "Missing underlying reader")

\* File.Close
FileClose(f, data, pos, fh) ==
    IF f.filePath
    THEN IF ~f.ra THEN FileResult(f, pos, fh, <<>>, "panic")
         ELSE IF fh = "open" THEN FileResult(f, pos, "closed", <<>>, "nil")
         ELSE FileResult(f, pos, fh, <<>>, "ErrClosed")
    ELSE IF f.ra
    THEN FileResult([f EXCEPT !.n = 0, !.i = f.i + f.n], pos, fh, <<>>, "nil")
    ELSE IF f.r
    THEN LET drained == Take(Drop(data, pos), f.n)
         IN  FileResult([f EXCEPT !.n = 0, !.i = f.i + f.n], pos + Len(drained), fh,
                        <<>>, IF Len(drained) < f.n THEN "EOF" ELSE "nil")
    ELSE FileResult(f, pos, fh, <<>>, "Missing underlying reader")

-----------------------------------------------------------------------------
(* Segmenter: src/segmenter.go *)

RECURSIVE Itoa(_)
\* fmt.Sprintf("%d", n), n >= 0
Itoa(n) == IF n < 10 THEN <<48 + n>> ELSE Itoa(n \div 10) \o <<48 + (n % 10)>>

\* uuid.New().String(): the k-th uuid generated
Uuid(k) == <<85>> \o Itoa(k)

\* Attributes.GenerateUUID with the k-th uuid
GenerateUUID(h, k) == Set(h, N_uuid, Uuid(k))

\* the attributes every fragment starts from
BaseAttrs(in, size, k) ==
    LET a0 == Clone(in.Attrs)
        a1 == IF Get(a0, N_uuid) = <<>> THEN GenerateUUID(a0, k) ELSE a0
        a2 == Set(a1, N_fragment_identifier, Get(a1, N_uuid))
        a3 == Unset(a2, N_uuid)
        a4 == Set(a3, N_segment_original_size, Itoa(size))
        a5 == Set(a4, N_segment_original_filename, Get(in.Attrs, N_filename))
    IN  IF Get(in.Attrs, N_checksumType) # <<>>
        THEN Unset(Unset(Set(Set(a5, N_segment_original_checksumType,
                                     Get(in.Attrs, N_checksumType)),
                                 N_segment_original_checksum, Get(in.Attrs, N_checksum)),
                         N_checksumType),
                   N_checksum)
        ELSE a5

\* the uuids BaseAttrs generates
BaseUuids(in) == IF Get(in.Attrs, N_uuid) = <<>> THEN 1 ELSE 0

RECURSIVE Windows(_, _, _, _)
\* the loop of SegmentBySize: the windows (st, en) of the k fragments still
\* to make, en being the end of the window before
Windows(en, size, segmentSize, k) ==
    IF k = 0 THEN <<>>
    ELSE LET e1 == en + segmentSize
             e2 == IF e1 > size THEN size ELSE e1
         IN  <<[st |-> en, en |-> e2]>> \o Windows(e2, size, segmentSize, k - 1)

\* the fragment of index j (from 1) with window w
Fragment(in, base, w, j, count, k) ==
    File(GenerateUUID(
             Set(Set(Set(Set(Clone(base), N_merge_reason, V_MAX_BYTES),
                         N_fragment_offset, Itoa(w.st)),
                     N_fragment_index, Itoa(j)),
                 N_fragment_count, Itoa(count)),
             k),
         w.st, w.en - w.st, w.en - w.st, FALSE, in.ra /\ ~in.filePath, in.filePath)

\* SegmentBySize(in, segmentSize), k uuids having been generated before:
\* the Files returned, the error, the File in after the call, the uuids
\* generated
SegmentBySize(in, segmentSize, k) ==
    IF ~in.ra /\ ~in.filePath
    THEN [out |-> <<>>, err |-> "Must have a reader with ReadAt capabilities to segment",
          in |-> in, uuids |-> k]
    ELSE IF segmentSize = 0 \/ in.Size < segmentSize
    THEN [out |-> <<in>>, err |-> "nil", in |-> in, uuids |-> k]
    ELSE
      LET size == in.Size
          count == (size - 1) \div segmentSize + 1
          k1 == k + BaseUuids(in)
          base == BaseAttrs(in, size, k1)
          ws == Windows(in.i, size, segmentSize, count)
      IN  [out |-> [j \in 1..count |-> Fragment(in, base, ws[j], j, count, k1 + j)],
           err |-> "nil",
           in |-> [in EXCEPT !.ra = FALSE, !.i = in.i - in.n, !.n = 0],
           uuids |-> k1 + count]

\* the segment size Segment works out for count segments of size bytes
SegmentSizeOf(size, count) ==
    size \div count + (IF size % count > 0 THEN 1 ELSE 0)

\* Segment(in, count), count >= 0; a count of 0 divides by zero
Segment(in, count, k) ==
    IF count = 0
    THEN [out |-> <<>>, err |-> "panic: runtime error: integer divide by zero",
          in |-> in, uuids |-> k]
    ELSE SegmentBySize(in, SegmentSizeOf(in.n, count), k)

-----------------------------------------------------------------------------
(* Wire codec: src/marshal.go *)

\* writeTo: the bytes io.Copy hands to out
writeTo(f, data, pos) ==
    AttrsWriteTo(f.Attrs) \o PutU64(f.Size) \o FileReadAll(f, data, pos)

\* the buffer of io.Copy
CopyBuf == 32 * 1024

RECURSIVE Copy(_, _, _, _)
\* io.Copy(out, f) for a writer that takes everything: File.Read is called
\* until it returns an error, and io.EOF ends the copy without an error
Copy(f, data, pos, fh) ==
    LET x == FileRead(f, data, pos, fh, CopyBuf)
    IN  IF x.err = "nil"
        THEN LET y == Copy(x.f, data, x.pos, x.fh)
             IN  FileResult(y.f, y.pos, y.fh, x.bytes \o y.bytes, y.err)
        ELSE FileResult(x.f, x.pos, x.fh, x.bytes, IF x.err = "EOF" THEN "nil" ELSE x.err)

\* writeTo(out, f): the File and its source after the call, the bytes
\* written to out and the error
writeToOut(f, data, pos, fh) ==
    LET x == Copy(f, data, pos, fh)
    IN  FileResult(x.f, x.pos, x.fh, AttrsWriteTo(f.Attrs) \o PutU64(f.Size) \o x.bytes,
                   x.err)

\* ReadFile on an input that is sequential (seeker = FALSE, readerAt = FALSE)
\* or random-access; pos is where the input stands before the call
ReadFile(in, pos, seeker, readerAt) ==
    LET a == AttrsReadFrom(Drop(in, pos), <<>>)
        hdrEnd == Len(in) - Len(a.rest)
    IN
    IF a.err # "nil" THEN [err |-> a.err, f |-> NoFile, pos |-> hdrEnd]
    ELSE IF Len(a.rest) < 8
    THEN [err |-> "Error parsing file size", f |-> NoFile, pos |-> Len(in)]
    ELSE LET N == Int64(Take(a.rest, 8))
             p == hdrEnd + 8
         IN  [err |-> "nil",
              f |-> File(a.attrs, IF seeker THEN p ELSE 0, N, N,
                         ~readerAt, readerAt, FALSE),
              pos |-> p]

-----------------------------------------------------------------------------
(* Checksums: src/unnamed/part_006 *)

\* the digits of fmt.Sprintf("%0x", b)
HexDigit(d) == IF d < 10 THEN 48 + d ELSE 87 + d

RECURSIVE Hex(_)
Hex(b) == IF b = <<>> THEN <<>>
          ELSE <<HexDigit(b[1] \div 16), HexDigit(b[1] % 16)>> \o Hex(Tail(b))

\* h.Sum(nil) after h.Write(b): a digest without collisions, the length of
\* the content and the content
Sum(b) == <<Len(b) % 256>> \o b

\* strings.ToUpper on the bytes of an ASCII string
ToUpper(b) == [j \in 1..Len(b) |-> IF b[j] >= 97 /\ b[j] <= 122 THEN b[j] - 32 ELSE b[j]]

IsSpace(c) == c \in {9, 10, 11, 12, 13, 32}

RECURSIVE TrimLeft(_)
TrimLeft(b) == IF b # <<>> /\ IsSpace(Head(b)) THEN TrimLeft(Tail(b)) ELSE b

RECURSIVE TrimRight(_)
TrimRight(b) ==
    IF b # <<>> /\ IsSpace(b[Len(b)]) THEN TrimRight(SubSeq(b, 1, Len(b) - 1)) ELSE b

\* strings.TrimSpace
TrimSpace(b) == TrimRight(TrimLeft(b))

\* the names getChecksumFunc knows: MD5, SHA1, SHA, SHA224, SHA256, SHA384,
\* SHA512
ChecksumNames ==
    {<<77, 68, 53>>, <<83, 72, 65, 49>>, <<83, 72, 65>>, <<83, 72, 65, 50, 50, 52>>,
     V_SHA256, <<83, 72, 65, 51, 56, 52>>, <<83, 72, 65, 53, 49, 50>>}

\* getChecksumFunc(cksum) # nil
getChecksumFunc(cksum) == TrimSpace(ToUpper(cksum)) \in ChecksumNames

\* File.Verify that takes every hash that was started for right
VerifyStarted(f, status, ck) ==
    IF f.Size = 0 /\ f.n = 0 THEN [status |-> status, err |-> "nil"]
    ELSE IF status \in {"cksumInit", "cksumPassed"}
    THEN [status |-> "cksumPassed", err |-> "nil"]
    ELSE IF status = "cksumFailed" THEN [status |-> status, err |-> "Mismatching checksum"]
    ELSE [status |-> status, err |-> "Missing checksum"]

\* File.Verify for a File f whose cksumStatus is status and whose hash was
\* fed the bytes ck: the status after the call and the error
Verify(f, status, ck) ==
    IF f.Size = 0 /\ f.n = 0 THEN [status |-> status, err |-> "nil"]
    ELSE IF status = "cksumInit"
    THEN IF Hex(Sum(ck)) = Get(f.Attrs, N_checksum)
         THEN [status |-> "cksumPassed", err |-> "nil"]
         ELSE [status |-> "cksumFailed", err |-> "Mismatching checksum"]
    ELSE IF status = "cksumPassed" THEN [status |-> status, err |-> "nil"]
    ELSE IF status = "cksumFailed" THEN [status |-> status, err |-> "Mismatching checksum"]
    ELSE [status |-> status, err |-> "Missing checksum"]

\* File.ChecksumInit: the status, the bytes in the hash and the error
ChecksumInit(f, status, ck) ==
    IF f.Size > 0
    THEN IF Get(f.Attrs, N_checksumType) # <<>> /\ getChecksumFunc(Get(f.Attrs, N_checksumType))
         THEN [status |-> "cksumInit", ck |-> <<>>, err |-> "nil"]
         ELSE [status |-> "cksumUnverified", ck |-> ck,
               err |-> "Unable to find matching checksum type"]
    ELSE [status |-> status, ck |-> ck, err |-> "nil"]

\* AddChecksum that hashes whatever reader the File has
AddChecksumOfAny(f, data, fh, cksum) ==
    IF f.Size = 0 THEN [f |-> f, err |-> "nil"]
    ELSE IF ~getChecksumFunc(cksum)
    THEN [f |-> f, err |-> "Unable to find checksum type"]
    ELSE [f |-> [f EXCEPT !.Attrs = Set(Set(f.Attrs, N_checksumType, cksum), N_checksum,
                                        Hex(Sum(Take(Drop(data, Max(f.i, 0)), Max(f.n, 0)))))],
          err |-> "nil"]

\* File.AddChecksum(cksum), the source holding data and, for a path-backed
\* File, its handle being fh: the File after the call and the error. "hang"
\* stands for a call that does not return, "panic" for one that panics.
AddChecksumOf(f, data, fh, cksum) ==
    IF f.Size = 0 THEN [f |-> f, err |-> "nil"]
    ELSE IF ~getChecksumFunc(cksum)
    THEN [f |-> f, err |-> "Unable to find checksum type"]
    ELSE IF ~f.ra /\ ~f.filePath
    THEN [f |-> f, err |-> "Reader must implement a ReadAt interface"]
    ELSE IF f.n < 0 THEN [f |-> f, err |-> "panic"]
    ELSE IF f.i < 0 THEN [f |-> f, err |-> "negative offset"]
    ELSE IF f.n = 0
    THEN \* ReadAt with an empty buffer: (0, nil) for an os.File, and for a
         \* bytes.Reader before its end
         IF ~f.filePath /\ f.i >= Len(data) THEN [f |-> f, err |-> "nil"]
         ELSE [f |-> f, err |-> "hang"]
    ELSE IF f.filePath /\ f.ra /\ fh = "closed" THEN [f |-> f, err |-> "ErrClosed"]
    ELSE LET b == Take(Drop(data, f.i), f.n)
         IN  IF Len(b) = f.n
             THEN [f |-> [f EXCEPT !.Attrs = Set(Set(f.Attrs, N_checksumType, cksum),
                                                 N_checksum, Hex(Sum(b)))],
                   err |-> "nil"]
             ELSE [f |-> f, err |-> "nil"]

\* the File after File.AddChecksum(cksum), the source holding data
AddChecksum(f, data, cksum) == AddChecksumOf(f, data, "none", cksum).f

-----------------------------------------------------------------------------
(* HTTP sender: src/marshal.go *)

\* the HTTPTransaction struct
HTTPTransaction(url, server, txid, mps, retryCount) ==
    [url |-> url, Server |-> server, TransactionID |-> txid,
     MaxPartitionSize |-> mps, RetryCount |-> retryCount, CheckSumType |-> V_SHA256]

RECURSIVE ParseUint(_, _)
\* strconv.ParseUint(v, 10, 64) of a non-empty v, acc being the value of the
\* digits read: the value, or -1 for an error
ParseUint(v, acc) ==
    IF v = <<>> THEN acc
    ELSE IF v[1] < 48 \/ v[1] > 57 THEN -1
    ELSE ParseUint(Tail(v), 10 * acc + (v[1] - 48))

\* "application/flowfile-v3"
ContentTypeFF3 ==
    <<97, 112, 112, 108, 105, 99, 97, 116, 105, 111, 110, 47, 102, 108, 111, 119, 102, 105, 108, 101, 45, 118, 51>>

\* strings.HasPrefix(s, prefix)
HasPrefix(s, prefix) == Len(s) >= Len(prefix) /\ Take(s, Len(prefix)) = prefix

RECURSIVE Split(_, _)
\* strings.Split(s, sep) for a separator of one byte
Split(s, sep) ==
    IF \A i \in DOMAIN s : s[i] # sep THEN <<s>>
    ELSE LET i == CHOOSE i \in DOMAIN s : s[i] = sep /\ \A j \in 1..(i - 1) : s[j] # sep
         IN  <<Take(s, i - 1)>> \o Split(Drop(s, i), sep)

\* Handshake's loop over the Accept header: hasFF
hasFF(accept) ==
    \E i \in DOMAIN Split(accept, 44) : HasPrefix(Split(accept, 44)[i], ContentTypeFF3)

\* what the server answers to the HEAD request of a Handshake: fail says
\* that client.Do returned an error, accept is the Accept header
Reply(fail, status, url, accept, version, mps, server) ==
    [fail |-> fail, status |-> status, url |-> url, accept |-> accept,
     version |-> version, mps |-> mps, server |-> server]

\* HTTPTransaction.Handshake, txid being the transaction id it generates
Handshake(h, reply, txid) ==
    IF reply.fail THEN [hs |-> h, err |-> "transport"]
    ELSE IF reply.status = 405 THEN [hs |-> h, err |-> "Method not allowed"]
    ELSE IF reply.status # 200 THEN [hs |-> h, err |-> "Unexpected status code"]
    ELSE
      LET h1 == [h EXCEPT !.url = reply.url]
          h2 == IF reply.mps # <<>>
                THEN IF ParseUint(reply.mps, 0) >= 0
                     THEN [h1 EXCEPT !.MaxPartitionSize = ParseUint(reply.mps, 0)]
                     ELSE h1
                ELSE [h1 EXCEPT !.MaxPartitionSize = 0]
      IN  IF ~hasFF(reply.accept)
          THEN [hs |-> h1, err |-> "Server does not support flowfile-v3"]
          ELSE IF reply.version # <<51>>
          THEN [hs |-> h1, err |-> "Unknown NiFi TransferVersion"]
          ELSE [hs |-> [h2 EXCEPT !.TransactionID = txid, !.Server = reply.server],
                err |-> "nil"]

\* what happens to one POST: the response the client gets ("200", "500", or
\* "none" for a transport failure), the file whose Write fails (0 for none)
\* and the bytes of it read before the failure
Outcome(resp, fail, c) == [resp |-> resp, fail |-> fail, c |-> c]

\* the state of a Send call: the session, the batch, the events so far, the
\* error, the uuids generated
SendState(h, ff, log, err, uuids) ==
    [hs |-> h, ff |-> ff, log |-> log, err |-> err, uuids |-> uuids]

\* the source of a File of a batch, and the File after k bytes of it are read
ReadK(f, k) == FileRead(f, Source(f.i + f.n), f.i, "none", k).f

\* HTTPPostWriter.Write up to the k-th byte of the content
WriteK(h, f, k) ==
    ReadK(IF f.Size > 0 /\ Get(f.Attrs, N_checksumType) = <<>>
          THEN AddChecksum(f, Source(f.i + f.n), h.CheckSumType)
          ELSE f,
          k)

\* HTTPTransaction.doSend
doSend(st, o) ==
    LET count == Len(st.ff)
        written(j) == o.fail = 0 \/ j < o.fail
        ff1 == [j \in 1..count |->
                  IF written(j) THEN WriteK(st.hs, st.ff[j], st.ff[j].n)
                  ELSE IF j = o.fail THEN WriteK(st.hs, st.ff[j], Min(o.c, st.ff[j].n))
                  ELSE st.ff[j]]
        last == IF o.fail = 0 THEN count ELSE o.fail
        wrote == [j \in 1..last |->
                    [from |-> st.ff[j].i, len |-> ff1[j].i - st.ff[j].i,
                     Size |-> st.ff[j].Size]]
        err0 == IF o.fail = 0 THEN "nil" ELSE "write error"
        closeErr == IF o.resp = "none" THEN "transport error" ELSE "nil"
        err1 == IF closeErr # "nil" THEN closeErr ELSE err0
        err2 == IF o.resp = "none" THEN "File did not send, no response"
                ELSE IF o.resp # "200" THEN "File did not send successfully"
                ELSE err1
    IN  [st EXCEPT !.ff = ff1, !.err = err2,
                   !.log = Append(st.log, [op |-> "POST", txid |-> st.hs.TransactionID,
                                           url |-> st.hs.url, wrote |-> wrote,
                                           resp |-> o.resp, err |-> err2])]

RECURSIVE ResetAll(_, _)
\* the loop of Send that resets the files from the j-th on
ResetAll(st, j) ==
    IF j > Len(st.ff) THEN st
    ELSE LET x == FileReset(st.ff[j])
             st1 == [st EXCEPT !.ff[j] = x.f, !.err = x.err,
                               !.log = Append(st.log, [op |-> "Reset", file |-> j,
                                                       err |-> x.err])]
         IN  IF x.err # "nil" THEN st1 ELSE ResetAll(st1, j + 1)

RECURSIVE RetryLoop(_, _, _, _)
\* the retry loop of Send from the iteration try on, every POST of it having
\* the outcome o and every Handshake the reply
RetryLoop(st, try, o, reply) ==
    IF st.err # "nil" /\ try < st.hs.RetryCount
    THEN LET s1 == doSend(st, o)
             x == Handshake(s1.hs, reply, Uuid(s1.uuids))
         IN  IF s1.err = "nil" THEN s1
             ELSE RetryLoop([s1 EXCEPT !.hs = x.hs, !.uuids = s1.uuids + 1,
                                       !.log = s1.log \o
                                               <<[op |-> "Sleep"],
                                                 [op |-> "Handshake",
                                                  txid |-> Uuid(s1.uuids),
                                                  err |-> x.err]>>],
                            try + 1, o, reply)
    ELSE st

-----------------------------------------------------------------------------
(* The codec at work: a File is encoded, the bytes are decoded, the        *)
(* content of the decoded File is read to its end.                         *)

V_x == <<120>>                      \* "x"

V_dir_x == <<100, 47, 120>>         \* "d/x"

N_a == <<97>>                       \* "a"

CodecNames == {N_a, N_path, N_filename}

CodecValues == {<<>>, V_x, V_dir_x}

CodecBytes == {0, 78}

CodecAttrs == {Attribute(nm, v) : nm \in CodecNames, v \in CodecValues}

CodecIdle ==
    /\ cpc = "off" /\ cA = <<>> /\ cC = <<>> /\ cWire = <<>> /\ cFile = NoFile
    /\ cErr = "nil" /\ cRest = <<>> /\ cOut = <<>>

NoOp == [op |-> "none", err |-> "nil", bytes |-> <<>>, took |-> 0]

FileIdle ==
    /\ fFile = NoFile /\ fData = <<>> /\ fPos = 0 /\ fFh = "none" /\ fStart = 0
    /\ fOp = NoOp /\ fCkStatus = "cksumPreinit" /\ fCk = <<>> /\ fSegs = 0 /\ fResets = 0

SegIdle ==
    /\ gpc = "off" /\ gIn = NoFile /\ gParent = NoFile /\ gStart = 0 /\ gK = 0
    /\ gCount = 0
    /\ gOut = <<>> /\ gErr = "nil" /\ gUuid = 0

DecodeIdle ==
    /\ rpc = "off" /\ rIn = <<>> /\ rKind = [seeker |-> FALSE, readerAt |-> FALSE]
    /\ rPos = 0 /\ rFile = NoFile /\ rErr = "nil" /\ rOp = NoOp /\ rHdr = 0

ScanIdle ==
    /\ sRecs = <<>> /\ sIn = <<>> /\ sKind = "seq" /\ sPos = 0 /\ sState = "off"
    /\ sFile = NoFile /\ sErr = "nil" /\ sScans = 0 /\ sOp = NoOp

SendIdle ==
    /\ hpc = "off" /\ hs = HTTPTransaction("", "", <<>>, 0, 0) /\ hFiles = <<>>
    /\ hBatch = <<>> /\ hLog = <<>> /\ hErr = "nil" /\ hUuid = 0

HandIdle ==
    /\ ths = HTTPTransaction("", "", <<>>, 0, 0) /\ tpc = "off" /\ tTxid = <<>>
    /\ tReply = <<>> /\ tCalls = 0 /\ tPairs = {} /\ tFailed = FALSE
    /\ tReq = <<>> /\ tUuid = 0

PostIdle ==
    /\ wKind = "off" /\ wInit = FALSE /\ wLock = -1 /\ wClient = FALSE /\ wNil = FALSE
    /\ wBuf = <<>> /\ wBufErr = FALSE /\ wPipe = "open" /\ wRClosed = FALSE
    /\ wBody = <<>> /\ wPost = "none" /\ wResp = "nil" /\ wPostErr = "nil"
    /\ wFlush = "none" /\ wG = <<>> /\ wClose = <<>> /\ wTerm = FALSE
    /\ wOrder = <<>> /\ wAccepted = <<>>

ShakeIdle ==
    /\ kHs = HTTPTransaction("", "", <<>>, 0, 0) /\ kOld = <<>> /\ kReply = <<>>
    /\ kTxid = <<>> /\ kErr = "nil" /\ kCalls = 0 /\ kUuid = 0

SaveIdle ==
    /\ vOrig = <<>> /\ vFrags = <<>> /\ vEnv = "off" /\ vDisk = <<>> /\ vProc = <<>>
    /\ vMarks = {}

AttrsIdle == aH = <<>> /\ aOp = <<>>

FragIdle ==
    /\ bpc = "off" /\ bData = <<>> /\ bAuto = FALSE /\ bFrags = <<>> /\ bShared = "none"
    /\ bOwn = <<>> /\ bClosed = {} /\ bOp = <<>>

RecvIdle ==
    /\ qReq = <<>> /\ qState = "off" /\ qCh = <<>> /\ qFile = NoFile /\ qPos = 0
    /\ qGot = <<>> /\ qScans = 0 /\ qOp = NoOp

\* the other parts are idle
CodecRestIdle ==
    /\ FileIdle
    /\ DecodeIdle
    /\ ScanIdle
    /\ SegIdle
    /\ SendIdle
    /\ HandIdle
    /\ PostIdle
    /\ ShakeIdle
    /\ SaveIdle
    /\ AttrsIdle
    /\ RecvIdle
    /\ FragIdle

FileRestIdle ==
    /\ CodecIdle
    /\ DecodeIdle
    /\ ScanIdle
    /\ SegIdle
    /\ SendIdle
    /\ HandIdle
    /\ PostIdle
    /\ ShakeIdle
    /\ SaveIdle
    /\ AttrsIdle
    /\ RecvIdle
    /\ FragIdle

DecodeRestIdle ==
    /\ CodecIdle
    /\ FileIdle
    /\ ScanIdle
    /\ SegIdle
    /\ SendIdle
    /\ HandIdle
    /\ PostIdle
    /\ ShakeIdle
    /\ SaveIdle
    /\ AttrsIdle
    /\ RecvIdle
    /\ FragIdle

ScanRestIdle ==
    /\ CodecIdle
    /\ FileIdle
    /\ DecodeIdle
    /\ SegIdle
    /\ SendIdle
    /\ HandIdle
    /\ PostIdle
    /\ ShakeIdle
    /\ SaveIdle
    /\ AttrsIdle
    /\ RecvIdle
    /\ FragIdle

SegRestIdle ==
    /\ CodecIdle
    /\ FileIdle
    /\ DecodeIdle
    /\ ScanIdle
    /\ SendIdle
    /\ HandIdle
    /\ PostIdle
    /\ ShakeIdle
    /\ SaveIdle
    /\ AttrsIdle
    /\ RecvIdle
    /\ FragIdle

SendRestIdle ==
    /\ CodecIdle
    /\ FileIdle
    /\ DecodeIdle
    /\ ScanIdle
    /\ SegIdle
    /\ HandIdle
    /\ PostIdle
    /\ ShakeIdle
    /\ SaveIdle
    /\ AttrsIdle
    /\ RecvIdle
    /\ FragIdle

HandRestIdle ==
    /\ CodecIdle
    /\ FileIdle
    /\ DecodeIdle
    /\ ScanIdle
    /\ SegIdle
    /\ SendIdle
    /\ PostIdle
    /\ ShakeIdle
    /\ SaveIdle
    /\ AttrsIdle
    /\ RecvIdle
    /\ FragIdle

PostRestIdle ==
    /\ CodecIdle
    /\ FileIdle
    /\ DecodeIdle
    /\ ScanIdle
    /\ SegIdle
    /\ SendIdle
    /\ HandIdle
    /\ ShakeIdle
    /\ SaveIdle
    /\ AttrsIdle
    /\ RecvIdle
    /\ FragIdle

ShakeRestIdle ==
    /\ CodecIdle
    /\ FileIdle
    /\ DecodeIdle
    /\ ScanIdle
    /\ SegIdle
    /\ SendIdle
    /\ HandIdle
    /\ PostIdle
    /\ SaveIdle
    /\ AttrsIdle
    /\ RecvIdle
    /\ FragIdle

SaveRestIdle ==
    /\ CodecIdle
    /\ FileIdle
    /\ DecodeIdle
    /\ ScanIdle
    /\ SegIdle
    /\ SendIdle
    /\ HandIdle
    /\ PostIdle
    /\ ShakeIdle
    /\ AttrsIdle
    /\ RecvIdle
    /\ FragIdle

AttrsRestIdle ==
    /\ CodecIdle
    /\ FileIdle
    /\ DecodeIdle
    /\ ScanIdle
    /\ SegIdle
    /\ SendIdle
    /\ HandIdle
    /\ PostIdle
    /\ ShakeIdle
    /\ SaveIdle
    /\ RecvIdle
    /\ FragIdle

RecvRestIdle ==
    /\ CodecIdle
    /\ FileIdle
    /\ DecodeIdle
    /\ ScanIdle
    /\ SegIdle
    /\ SendIdle
    /\ HandIdle
    /\ PostIdle
    /\ ShakeIdle
    /\ SaveIdle
    /\ AttrsIdle
    /\ FragIdle

FragRestIdle ==
    /\ CodecIdle
    /\ FileIdle
    /\ DecodeIdle
    /\ ScanIdle
    /\ SegIdle
    /\ SendIdle
    /\ HandIdle
    /\ PostIdle
    /\ ShakeIdle
    /\ SaveIdle
    /\ AttrsIdle
    /\ RecvIdle

\* "./"
V_dot_slash == <<46, 47>>

\* "abcd-efgh"
V_abcd_efgh ==
    <<97, 98, 99, 100, 45, 101, 102, 103, 104>>

\* ff.Attrs.Set("path", "./"); ff.Attrs.Set("filename", "abcd-efgh")
ExampleAttrs == Set(Set(<<>>, N_path, V_dot_slash), N_filename, V_abcd_efgh)

\* "this is a custom string for flowfile"
ExampleContent ==
    <<116, 104, 105, 115, 32, 105, 115, 32, 97, 32, 99, 117, 115, 116, 111, 109, 32, 115, 116,
      114, 105, 110, 103, 32, 102, 111, 114, 32, 102, 108, 111, 119, 102, 105, 108, 101>>

\* a value of 65536 bytes, one more than a uint16 counts
LongValue == [j \in 1..U16Mod |-> 120]

\* any attributes and content within the bounds, or those of the example,
\* or one attribute with a long value
CodecInit ==
    /\ CodecRestIdle
    /\ cpc = "start"
    /\ \/ cA \in SeqsUpTo(CodecAttrs, MaxAttrs) /\ cC \in SeqsUpTo(CodecBytes, MaxContent)
       \/ cA = ExampleAttrs /\ cC = ExampleContent
       \/ cA = <<Attribute(N_a, LongValue)>> /\ cC \in SeqsUpTo(CodecBytes, 1)
    /\ cWire = <<>>
    /\ cFile = NoFile
    /\ cErr = "nil"
    /\ cRest = <<>>
    /\ cOut = <<>>

\* flowfile.New(bytes.NewReader(C), len(C)) with Attrs = A, then writeTo
Encode ==
    /\ cpc = "start"
    /\ cWire' = writeTo(File(cA, 0, Len(cC), Len(cC), FALSE, TRUE, FALSE), cC, 0)
    /\ cpc' = "encoded"
    /\ UNCHANGED <<cA, cC, cFile, cErr, cRest, cOut>>
    /\ UNCHANGED codecRest

\* Unmarshal: ReadFile(bytes.NewBuffer(dat))
Decode ==
    /\ cpc = "encoded"
    /\ LET d == ReadFile(cWire, 0, FALSE, FALSE)
       IN  /\ cFile' = d.f
           /\ cErr' = d.err
           /\ cRest' = Drop(cWire, d.pos)
    /\ cpc' = "decoded"
    /\ UNCHANGED <<cA, cC, cWire, cOut>>
    /\ UNCHANGED codecRest

\* the decoded File is read until io.EOF
ReadContent ==
    /\ cpc = "decoded"
    /\ cErr = "nil"
    /\ cOut' = FileReadAll(cFile, cRest, 0)
    /\ cRest' = Drop(cRest, Len(FileReadAll(cFile, cRest, 0)))
    /\ cFile' = [cFile EXCEPT !.n = cFile.n - Len(FileReadAll(cFile, cRest, 0)),
                              !.i = cFile.i + Len(FileReadAll(cFile, cRest, 0))]
    /\ cpc' = "read"
    /\ UNCHANGED <<cA, cC, cWire, cErr>>
    /\ UNCHANGED codecRest

CodecNext == Encode \/ Decode \/ ReadContent

SpecCodec == CodecInit /\ [][CodecNext]_vars

-----------------------------------------------------------------------------
(* One File over its source: Read, Reset, Close and AddChecksum in any    *)
(* order; with SegmentBySize, with writeTo, with ChecksumInit and Verify.  *)

\* the attributes a File arrives with: none, the checksum of its content,
\* another checksum, a checksum of a type that is not known
ChecksumAttrs(content) ==
    {<<>>,
     <<Attribute(N_checksumType, V_SHA256), Attribute(N_checksum, Hex(Sum(content)))>>,
     <<Attribute(N_checksumType, V_SHA256), Attribute(N_checksum, V_digest)>>,
     <<Attribute(N_checksumType, V_CRC), Attribute(N_checksum, V_digest)>>}

OpResult(op, err, bytes, took) == [op |-> op, err |-> err, bytes |-> bytes, took |-> took]

\* flowfile.New(r, size) on a reader that stands at start and holds len bytes:
\* kind "seq" is a reader with Read only, kind "ra" one with Read, Seek and
\* ReadAt; kind "path" is NewFromDisk on a regular file of size bytes
FileInit ==
    /\ FileRestIdle
    /\ \E kind \in {"seq", "ra", "path"}, size \in 0..MaxSize, start \in 0..MaxStart,
          short \in 0..1 :
         /\ short <= size
         /\ kind = "path" => start = 0 /\ short = 0
         /\ fData = Source(IF short = 0 /\ kind # "path"
                           THEN start + size + 1 ELSE start + size - short)
         /\ \E a \in ChecksumAttrs(Take(Drop(fData, start), size)) :
                fFile = File(a, IF kind = "ra" THEN start ELSE 0, size, size,
                             kind = "seq", kind = "ra", kind = "path")
         /\ fPos = start
         /\ fStart = start
    /\ fFh = "none"
    /\ fOp = NoOp
    /\ fCkStatus = "cksumPreinit"
    /\ fCk = <<>>
    /\ fSegs = 0
    /\ fResets = 0

\* a panic ends the program, and nothing follows a call that does not return
Running == fOp.err \notin {"panic", "hang"}

FRead(k) ==
    /\ Running
    /\ LET x == FileRead(fFile, fData, fPos, fFh, k)
       IN  /\ fFile' = x.f
           /\ fPos' = x.pos
           /\ fFh' = x.fh
           /\ fOp' = OpResult("Read", x.err, x.bytes, x.pos - fPos)
           /\ fCk' = IF fCkStatus = "cksumInit" THEN fCk \o x.bytes ELSE fCk
    /\ UNCHANGED <<fData, fStart, fCkStatus, fSegs, fResets>>
    /\ UNCHANGED fileRest

FReset ==
    /\ Running
    /\ fResets < MaxResets
    /\ fResets' = fResets + 1
    /\ fFile' = FileReset(fFile).f
    /\ fOp' = OpResult("Reset", FileReset(fFile).err, <<>>, 0)
    /\ UNCHANGED <<fData, fPos, fFh, fStart, fCkStatus, fCk, fSegs>>
    /\ UNCHANGED fileRest

FClose ==
    /\ Running
    /\ LET x == FileClose(fFile, fData, fPos, fFh)
       IN  /\ fFile' = x.f
           /\ fPos' = x.pos
           /\ fFh' = x.fh
           /\ fOp' = OpResult("Close", x.err, <<>>, x.pos - fPos)
    /\ UNCHANGED <<fData, fStart, fCkStatus, fCk, fSegs, fResets>>
    /\ UNCHANGED fileRest

\* the checksum types AddChecksum is called with
ChecksumTypes == {V_sha256, V_CRC}

FAddChecksum(cksum) ==
    /\ Running
    /\ LET x == AddChecksumOf(fFile, fData, fFh, cksum)
       IN  /\ fFile' = x.f
           /\ fOp' = OpResult("AddChecksum", x.err, <<>>, 0)
    /\ UNCHANGED <<fData, fPos, fFh, fStart, fCkStatus, fCk, fSegs, fResets>>
    /\ UNCHANGED fileRest

\* SegmentBySize(f, segmentSize); the File followed from here on is f or one
\* of the Files returned
FSegmentBySize(segmentSize) ==
    /\ Running
    /\ fSegs < MaxSegmentations
    /\ fSegs' = fSegs + 1
    /\ LET x == SegmentBySize(fFile, segmentSize, 0)
       IN  /\ \/ /\ fFile' = x.in
                  /\ UNCHANGED <<fStart, fCkStatus, fCk>>
               \/ \E j \in 1..Len(x.out) :
                      /\ x.out[j] # fFile
                      /\ fFile' = x.out[j]
                      /\ fStart' = x.out[j].i
                      /\ fCkStatus' = "cksumPreinit"
                      /\ fCk' = <<>>
           /\ fFh' = IF x.in # fFile /\ fFh = "open" THEN "closed" ELSE fFh
           /\ fOp' = OpResult("SegmentBySize", x.err, <<>>, 0)
    /\ UNCHANGED <<fData, fPos, fResets>>
    /\ UNCHANGED fileRest

FVerify ==
    /\ Running
    /\ fCkStatus' = Verify(fFile, fCkStatus, fCk).status
    /\ fOp' = OpResult("Verify", Verify(fFile, fCkStatus, fCk).err, <<>>, 0)
    /\ UNCHANGED <<fFile, fData, fPos, fFh, fStart, fCk, fSegs, fResets>>
    /\ UNCHANGED fileRest

FChecksumInit ==
    /\ Running
    /\ LET x == ChecksumInit(fFile, fCkStatus, fCk)
       IN  /\ fCkStatus' = x.status
           /\ fCk' = x.ck
           /\ fOp' = OpResult("ChecksumInit", x.err, <<>>, 0)
    /\ UNCHANGED <<fFile, fData, fPos, fFh, fStart, fSegs, fResets>>
    /\ UNCHANGED fileRest

FileNext ==
    \/ \E k \in 1..MaxBuf : FRead(k)
    \/ FReset
    \/ FClose
    \/ \E cksum \in ChecksumTypes : FAddChecksum(cksum)

SpecFile == FileInit /\ [][FileNext]_vars

\* a File that is segmented as well, the File followed being the one
\* SegmentBySize was called on or one of the Files it returned
SegmentedNext ==
    \/ FileNext
    \/ \E segmentSize \in 0..MaxSize : FSegmentBySize(segmentSize)

SpecSegmented == FileInit /\ [][SegmentedNext]_vars

\* writeTo(out, f) on the File
FWriteTo ==
    /\ Running
    /\ LET x == writeToOut(fFile, fData, fPos, fFh)
       IN  /\ fFile' = x.f
           /\ fPos' = x.pos
           /\ fFh' = x.fh
           /\ fOp' = OpResult("writeTo", x.err, x.bytes, x.pos - fPos)
           /\ fCk' = IF fCkStatus = "cksumInit"
                     THEN fCk \o Copy(fFile, fData, fPos, fFh).bytes ELSE fCk
    /\ UNCHANGED <<fData, fStart, fCkStatus, fSegs, fResets>>
    /\ UNCHANGED fileRest

\* a File that is read and, in whatever state, encoded
EncodeNext == FileNext \/ FWriteTo

SpecEncode == FileInit /\ [][EncodeNext]_vars

\* a File that is read and verified
VerifyNext ==
    \/ \E k \in 1..MaxBuf : FRead(k)
    \/ FReset
    \/ FClose
    \/ FVerify
    \/ FChecksumInit

SpecVerify == FileInit /\ [][VerifyNext]_vars

-----------------------------------------------------------------------------
(* The Scanner.  Its code (NewScanner, Scan, File, Err) is not among the   *)
(* sources: Scan is modelled from section 4.4 of the specification, on top *)
(* of ReadFile and File.Close, which are.                                  *)

Record(attrs, content) == [attrs |-> attrs, content |-> content]

\* the wire bytes of one record
RecordWire(rec) ==
    writeTo(File(rec.attrs, 0, Len(rec.content), Len(rec.content), FALSE, TRUE, FALSE),
            rec.content, 0)

RECURSIVE StreamOf(_)
\* the concatenation of the records' wire bytes
StreamOf(recs) ==
    IF Len(recs) = 0 THEN <<>>
    ELSE StreamOf(Take(recs, Len(recs) - 1)) \o RecordWire(recs[Len(recs)])

\* where the content of record k starts in the input
ContentStart(recs, k) ==
    Len(StreamOf(Take(recs, k))) - Len(recs[k].content)

ScanAttrs == {<<>>, <<Attribute(N_a, V_x)>>,
              <<Attribute(N_path, V_x), Attribute(N_filename, V_x)>>}

ScanContents == {<<>>, <<7>>, <<7, 8>>}

ScanRecords == {Record(a, c) : a \in ScanAttrs, c \in ScanContents}

ScanInit ==
    /\ ScanRestIdle
    /\ sRecs \in SeqsUpTo(ScanRecords, MaxRecords)
    /\ sIn = StreamOf(sRecs)
    /\ sKind \in {"seq", "ra"}
    /\ sPos = 0
    /\ sState = "idle"
    /\ sFile = NoFile
    /\ sErr = "nil"
    /\ sScans = 0
    /\ sOp = NoOp

\* Scanner.Scan: close the record at hand, decode the next one
Scan ==
    /\ sState \in {"idle", "have-record"}
    /\ LET c == IF sState = "have-record"
                THEN FileClose(sFile, sIn, sPos, "none")
                ELSE FileResult(sFile, sPos, "none", <<>>, "nil")
           d == ReadFile(sIn, c.pos, sKind = "ra", sKind = "ra")
       IN  /\ sPos' = d.pos
           /\ sFile' = d.f
           /\ sState' = IF d.err = "nil" THEN "have-record"
                        ELSE IF d.err = "EOF" THEN "exhausted" ELSE "errored"
           /\ sErr' = IF d.err \in {"nil", "EOF"} THEN "nil" ELSE d.err
           /\ sOp' = OpResult("Scan", IF d.err = "nil" THEN "true" ELSE "false", <<>>,
                              d.pos - sPos)
    /\ sScans' = sScans + 1
    /\ UNCHANGED <<sRecs, sIn, sKind>>
    /\ UNCHANGED scanRest

\* Scanner.Scan once the input is exhausted or in error
ScanAfterEnd ==
    /\ sState \in {"exhausted", "errored"}
    /\ sScans < MaxRecords + 2
    /\ sOp' = OpResult("Scan", "false", <<>>, 0)
    /\ sScans' = sScans + 1
    /\ UNCHANGED <<sRecs, sIn, sKind, sPos, sState, sFile, sErr>>
    /\ UNCHANGED scanRest

\* the consumer reads from the record at hand: s.File().Read(p), len(p) = k
ScanRead(k) ==
    /\ sState = "have-record"
    /\ LET x == FileRead(sFile, sIn, sPos, "none", k)
       IN  /\ sFile' = x.f
           /\ sPos' = x.pos
           /\ sOp' = OpResult("Read", x.err, x.bytes, x.pos - sPos)
    /\ UNCHANGED <<sRecs, sIn, sKind, sState, sErr, sScans>>
    /\ UNCHANGED scanRest

ScanNext == Scan \/ ScanAfterEnd \/ (\E k \in 1..MaxBuf : ScanRead(k))

SpecScan == ScanInit /\ [][ScanNext]_vars

\* "NiFiFF2"
BadMagic == <<78, 105, 70, 105, 70, 70, 50>>

\* the header of a record with the attribute a = "d/x"
CutHeader == AttrsWriteTo(<<Attribute(N_a, V_dir_x)>>)

\* bytes that are no header: another magic, a byte of something else, a
\* header that ends before its last byte
BadHeaders ==
    {BadMagic, BadMagic \o <<0, 0>>, <<7>>}
    \cup {Take(CutHeader, k) : k \in 1..(Len(CutHeader) - 1)}

\* an input of well-formed records followed by bytes that are no header
ScanBadInit ==
    /\ ScanRestIdle
    /\ sRecs \in SeqsUpTo(ScanRecords, MaxRecords - 1)
    /\ \E bad \in BadHeaders : sIn = StreamOf(sRecs) \o bad
    /\ sKind \in {"seq", "ra"}
    /\ sPos = 0
    /\ sState = "idle"
    /\ sFile = NoFile
    /\ sErr = "nil"
    /\ sScans = 0
    /\ sOp = NoOp

SpecScanBad == ScanBadInit /\ [][ScanNext]_vars

-----------------------------------------------------------------------------
(* The Segmenter at work: one File, of any backing, is segmented.          *)

\* a File of 10 MB segmented by 3 MB
ExampleSize == 10 * 1024 * 1024

ExampleSegmentSize == 3 * 1024 * 1024

SegAttrs == {<<>>,
             <<Attribute(N_uuid, Uuid(0)), Attribute(N_filename, V_x)>>,
             <<Attribute(N_filename, V_x), Attribute(N_checksumType, V_SHA256),
               Attribute(N_checksum, V_digest)>>}

\* a File made by New or NewFromDisk of which done bytes were read
SegInit ==
    /\ SegRestIdle
    /\ gpc = "start"
    /\ \E kind \in {"seq", "ra", "path"}, size \in (0..MaxSegSize) \cup {ExampleSize},
          start \in 0..MaxStart, done \in 0..MaxDone, a \in SegAttrs :
         /\ done <= size
         /\ kind = "path" => start = 0
         /\ size = ExampleSize => kind = "ra" /\ done = 0 /\ a = <<>>
         /\ gStart = IF kind = "seq" THEN 0 ELSE start
         /\ gIn = File(a, gStart + done, size - done, size,
                       kind = "seq", kind = "ra" \/ (kind = "path" /\ done > 0),
                       kind = "path")
    /\ gParent = gIn
    /\ gK = 0
    /\ gCount = 0
    /\ gOut = <<>>
    /\ gErr = "nil"
    /\ gUuid = 1

\* the segment sizes tried on a File of this size
SegmentSizes(size) ==
    IF size = ExampleSize THEN {ExampleSegmentSize} ELSE 0..(MaxSegSize + 1)

DoSegmentBySize(segmentSize) ==
    /\ gpc = "start"
    /\ segmentSize \in SegmentSizes(gIn.Size)
    /\ LET x == SegmentBySize(gIn, segmentSize, gUuid)
       IN  /\ gOut' = x.out
           /\ gErr' = x.err
           /\ gIn' = x.in
           /\ gUuid' = x.uuids
    /\ gK' = segmentSize
    /\ gCount' = 0
    /\ gpc' = "done"
    /\ UNCHANGED <<gParent, gStart>>
    /\ UNCHANGED segRest

\* the counts tried with Segment on a File of this size
Counts(size) ==
    IF size = ExampleSize THEN {} ELSE 0..(MaxSegSize + 1)

DoSegment(count) ==
    /\ gpc = "start"
    /\ count \in Counts(gIn.Size)
    /\ LET x == Segment(gIn, count, gUuid)
       IN  /\ gOut' = x.out
           /\ gErr' = x.err
           /\ gIn' = x.in
           /\ gUuid' = x.uuids
    /\ gK' = IF count = 0 THEN 0 ELSE SegmentSizeOf(gIn.n, count)
    /\ gCount' = count
    /\ gpc' = IF count = 0 THEN "panic" ELSE "done"
    /\ UNCHANGED <<gParent, gStart>>
    /\ UNCHANGED segRest

SegNext ==
    \/ \E segmentSize \in (0..(MaxSegSize + 1)) \cup {ExampleSegmentSize} :
          DoSegmentBySize(segmentSize)
    \/ \E count \in 0..(MaxSegSize + 1) : DoSegment(count)

SpecSeg == SegInit /\ [][SegNext]_vars

-----------------------------------------------------------------------------
(* Send at work: one call of HTTPTransaction.Send on a batch of Files.     *)

\* the urls of the server: the one the session was made for, the one it
\* redirects to
Urls == {"u0", "u1"}

\* the Files of a batch: made by New or NewFromDisk, not read yet
SendFiles ==
    {File(<<>>, 0, size, size, kind = "seq", kind = "ra", kind = "path") :
        kind \in {"seq", "ra", "path"}, size \in 0..MaxSendSize}

Outcomes(ff) ==
    {Outcome(resp, 0, 0) : resp \in {"200", "500", "none"}}
    \cup {Outcome(resp, fail, c) : resp \in {"200", "500", "none"},
                                  fail \in 1..Len(ff), c \in 0..MaxSendSize}

\* the replies to the Handshake of a retry
Replies ==
    {Reply(TRUE, 0, "u0", <<>>, <<>>, <<>>, "s"),
     Reply(FALSE, 200, "u1", ContentTypeFF3, <<51>>, <<>>, "s")}

\* a session after NewHTTPTransaction, its Handshake done
SendInit ==
    /\ SendRestIdle
    /\ hpc = "call"
    /\ \E retryCount \in 0..MaxRetry :
         hs = HTTPTransaction("u0", "s", Uuid(0), 0, retryCount)
    /\ hFiles \in SeqsUpTo(SendFiles, MaxBatch)
    /\ hBatch = hFiles
    /\ hLog = <<>>
    /\ hErr = "nil"
    /\ hUuid = 1

\* Send up to the end of its first attempt
SendFirst(o) ==
    /\ hpc = "call"
    /\ IF Len(hFiles) = 0
       THEN /\ hpc' = "returned"
            /\ UNCHANGED <<hs, hFiles, hLog, hErr, hUuid>>
       ELSE /\ o \in Outcomes(hFiles)
            /\ LET st == doSend(SendState(hs, hFiles, hLog, hErr, hUuid), o)
               IN  /\ hFiles' = st.ff
                   /\ hLog' = st.log
                   /\ hErr' = st.err
                   /\ hpc' = IF st.err = "nil" \/ hs.RetryCount <= 0
                             THEN "returned" ELSE "verify"
            /\ UNCHANGED <<hs, hUuid>>
    /\ UNCHANGED hBatch
    /\ UNCHANGED sendRest

\* Send from the verification of the files to its return
SendRetry(o, reply) ==
    /\ hpc = "verify"
    /\ o \in Outcomes(hFiles)
    /\ LET s1 == ResetAll(SendState(hs, hFiles, hLog, hErr, hUuid), 1)
           st == IF s1.err # "nil" THEN s1 ELSE RetryLoop(s1, 1, o, reply)
       IN  /\ hs' = st.hs
           /\ hFiles' = st.ff
           /\ hLog' = st.log
           /\ hErr' = st.err
           /\ hUuid' = st.uuids
    /\ hpc' = "returned"
    /\ UNCHANGED hBatch
    /\ UNCHANGED sendRest

SendNext ==
    \/ \E o \in Outcomes(hFiles) : SendFirst(o)
    \/ \E o \in Outcomes(hFiles), reply \in Replies : SendRetry(o, reply)

SpecSend == SendInit /\ [][SendNext]_vars

-----------------------------------------------------------------------------
(* Handshakes and POSTs of one HTTPTransaction running concurrently: the   *)
(* accesses of Handshake and doPost to the fields of the session, one by   *)
(* one.                                                                    *)

PostIds == 1..MaxPosts

\* the replies of the server to a HEAD request
HandshakeReplies ==
    {Reply(TRUE, 0, "u0", <<>>, <<>>, <<>>, "s"),
     Reply(FALSE, 405, "u0", <<>>, <<>>, <<>>, "s"),
     Reply(FALSE, 200, "u1", <<>>, <<51>>, <<>>, "s"),
     Reply(FALSE, 200, "u1", ContentTypeFF3, <<50>>, <<>>, "s"),
     Reply(FALSE, 200, "u1", ContentTypeFF3, <<51>>, <<>>, "s1"),
     Reply(FALSE, 200, "u0", ContentTypeFF3, <<51>>, <<52>>, "s")}

NoReply == Reply(TRUE, 0, "", <<>>, <<>>, <<>>, "")

NoRequest == [pc |-> "none", url |-> "", txid |-> <<>>]

\* a session after NewHTTPTransaction, its first Handshake done; no POST
\* writer has written yet
HandInit ==
    /\ HandRestIdle
    /\ ths = HTTPTransaction("u0", "s", Uuid(0), 0, 0)
    /\ tpc = "idle"
    /\ tTxid = <<>>
    /\ tReply = NoReply
    /\ tCalls = 0
    /\ tPairs = {[url |-> "u0", txid |-> Uuid(0)]}
    /\ tFailed = FALSE
    /\ tReq = [p \in PostIds |-> NoRequest]
    /\ tUuid = 1

\* Handshake up to the answer to its HEAD request
HandshakeHead(reply) ==
    /\ tpc = "idle"
    /\ tCalls < MaxHandshakes
    /\ tCalls' = tCalls + 1
    /\ tTxid' = Uuid(tUuid)
    /\ tUuid' = tUuid + 1
    /\ IF reply.fail \/ reply.status # 200
       THEN tpc' = "idle" /\ tReply' = NoReply
       ELSE tpc' = "replied" /\ tReply' = reply
    /\ UNCHANGED <<ths, tPairs, tFailed, tReq>>
    /\ UNCHANGED handRest

\* Handshake: hs.url is set, the Accept header is checked
HandshakeSetUrl ==
    /\ tpc = "replied"
    /\ ths' = [ths EXCEPT !.url = tReply.url]
    /\ IF hasFF(tReply.accept)
       THEN tpc' = "accepted" /\ UNCHANGED <<tReply, tFailed>>
       ELSE tpc' = "idle" /\ tReply' = NoReply /\ tFailed' = TRUE
    /\ UNCHANGED <<tTxid, tCalls, tPairs, tReq, tUuid>>
    /\ UNCHANGED handRest

\* Handshake: the protocol version is checked, hs.MaxPartitionSize is set
HandshakeSetMax ==
    /\ tpc = "accepted"
    /\ IF tReply.version # <<51>>
       THEN /\ tpc' = "idle" /\ tReply' = NoReply /\ tFailed' = TRUE
            /\ UNCHANGED ths
       ELSE /\ tpc' = "checked"
            /\ ths' = [ths EXCEPT !.MaxPartitionSize =
                         IF tReply.mps = <<>> THEN 0
                         ELSE IF ParseUint(tReply.mps, 0) >= 0
                              THEN ParseUint(tReply.mps, 0)
                              ELSE ths.MaxPartitionSize]
            /\ UNCHANGED <<tReply, tFailed>>
    /\ UNCHANGED <<tTxid, tCalls, tPairs, tReq, tUuid>>
    /\ UNCHANGED handRest

\* Handshake: hs.TransactionID and hs.Server are set, Handshake returns nil
HandshakeSetId ==
    /\ tpc = "checked"
    /\ ths' = [ths EXCEPT !.TransactionID = tTxid, !.Server = tReply.server]
    /\ tPairs' = tPairs \cup {[url |-> ths.url, txid |-> tTxid]}
    /\ tpc' = "idle"
    /\ tReply' = NoReply
    /\ UNCHANGED <<tTxid, tCalls, tFailed, tReq, tUuid>>
    /\ UNCHANGED handRest

\* the first Write of a POST writer starts its doPost
PostStart(p) ==
    /\ tReq[p].pc = "none"
    /\ tReq' = [tReq EXCEPT ![p].pc = "started"]
    /\ UNCHANGED <<ths, tpc, tTxid, tReply, tCalls, tPairs, tFailed, tUuid>>
    /\ UNCHANGED handRest

\* doPost: http.NewRequest("POST", hs.url, r)
PostNewRequest(p) ==
    /\ tReq[p].pc = "started"
    /\ tReq' = [tReq EXCEPT ![p].pc = "request", ![p].url = ths.url]
    /\ UNCHANGED <<ths, tpc, tTxid, tReply, tCalls, tPairs, tFailed, tUuid>>
    /\ UNCHANGED handRest

\* doPost: req.Header.Set("x-nifi-transaction-id", hs.TransactionID)
PostSetHeaders(p) ==
    /\ tReq[p].pc = "request"
    /\ tReq' = [tReq EXCEPT ![p].pc = "built", ![p].txid = ths.TransactionID]
    /\ UNCHANGED <<ths, tpc, tTxid, tReply, tCalls, tPairs, tFailed, tUuid>>
    /\ UNCHANGED handRest

HandNext ==
    \/ \E reply \in HandshakeReplies : HandshakeHead(reply)
    \/ HandshakeSetUrl
    \/ HandshakeSetMax
    \/ HandshakeSetId
    \/ \E p \in PostIds : PostStart(p)
    \/ \E p \in PostIds : PostNewRequest(p)
    \/ \E p \in PostIds : PostSetHeaders(p)

SpecHand == HandInit /\ [][HandNext]_vars

-----------------------------------------------------------------------------
(* One HTTPPostWriter, plain or buffered: goroutines that Write, Close and *)
(* Terminate, the doPost task, the flushLoop task.  A step under           *)
(* maxLatencyWriter.mu is one action; writeLock is held over several.      *)

Writers == 1..MaxWriters

\* the goroutine that calls Close
Closer == 0

\* the calls of hw.w.Write that writeTo makes for one record: the header,
\* then the content
RecordChunks == 2

\* the bytes of the k-th chunk of the record that goroutine g writes
Chunk(g, k) == <<10 * g + k>>

\* the wire record that goroutine g writes
RecordOf(g) == Chunk(g, 1) \o Chunk(g, 2)

RECURSIVE Concat(_)
\* the records of the goroutines of order, one after the other
Concat(order) ==
    IF order = <<>> THEN <<>> ELSE RecordOf(Head(order)) \o Concat(Tail(order))

IsPrefix(s, t) == Len(s) <= Len(t) /\ s = Take(t, Len(s))

\* a new writer of NewHTTPPostWriter or NewHTTPBufferedPostWriter
PostInit ==
    /\ PostRestIdle
    /\ wKind \in {"plain", "buffered"}
    /\ wInit = TRUE
    /\ wLock = -1
    /\ wClient = TRUE
    /\ wNil = FALSE
    /\ wBuf = <<>>
    /\ wBufErr = FALSE
    /\ wPipe = "open"
    /\ wRClosed = FALSE
    /\ wBody = <<>>
    /\ wPost = "none"
    /\ wResp = "nil"
    /\ wPostErr = "POST did not complete"
    /\ wFlush = "none"
    /\ wG = [g \in Writers |-> [pc |-> "idle", sent |-> 0, writes |-> 0, err |-> "nil"]]
    /\ wClose = [pc |-> "idle", closes |-> 0, err |-> "nil"]
    /\ wTerm = FALSE
    /\ wOrder = <<>>
    /\ wAccepted = <<>>

\* the pipe takes bytes: its write side is open and doPost reads the body
PipeTakes == wPipe = "open" /\ ~wRClosed /\ wPost = "doing"

\* Write: writeLock is taken
WriteLockFree(g) ==
    /\ wG[g].pc = "idle"
    /\ wG[g].writes < MaxWrites
    /\ wLock' = g
    /\ wG' = [wG EXCEPT ![g].pc = "locked"]
    /\ UNCHANGED <<wKind, wInit, wClient, wNil, wBuf, wBufErr, wPipe, wRClosed, wBody,
                   wPost, wResp, wPostErr, wFlush, wClose, wTerm, wOrder, wAccepted>>
    /\ UNCHANGED postRest

WriteLock(g) ==
    /\ wG[g].pc = "idle"
    /\ wG[g].writes < MaxWrites
    /\ wLock = -1
    /\ wLock' = g
    /\ wG' = [wG EXCEPT ![g].pc = "locked"]
    /\ UNCHANGED <<wKind, wInit, wClient, wNil, wBuf, wBufErr, wPipe, wRClosed, wBody,
                   wPost, wResp, wPostErr, wFlush, wClose, wTerm, wOrder, wAccepted>>
    /\ UNCHANGED postRest

\* Write: init starts doPost (and flushLoop) on the first Write; a closed
\* writer is refused
WriteBegin(g) ==
    /\ wG[g].pc = "locked"
    /\ wInit' = FALSE
    /\ wPost' = IF wInit THEN "doing" ELSE wPost
    /\ wFlush' = IF wInit /\ wKind = "buffered" THEN "select" ELSE wFlush
    /\ IF ~wClient
       THEN /\ wG' = [wG EXCEPT ![g].pc = "idle", ![g].writes = @ + 1,
                                ![g].err = "HTTPTransaction Closed"]
            /\ wLock' = -1
            /\ UNCHANGED wOrder
       ELSE /\ wG' = [wG EXCEPT ![g].pc = "writing", ![g].sent = 0]
            /\ wOrder' = Append(wOrder, g)
            /\ UNCHANGED wLock
    /\ UNCHANGED <<wKind, wClient, wNil, wBuf, wBufErr, wPipe, wRClosed, wBody,
                   wResp, wPostErr, wClose, wTerm, wAccepted>>
    /\ UNCHANGED postRest

\* the goroutine g has written its chunk, with or without error
AfterChunk(g, failed) ==
    IF failed
    THEN /\ wG' = [wG EXCEPT ![g].pc = "idle", ![g].writes = @ + 1, ![g].err = "write error"]
         /\ wLock' = IF wLock = g THEN -1 ELSE wLock
    ELSE IF wG[g].sent + 1 = RecordChunks
    THEN /\ wG' = [wG EXCEPT ![g].pc = "idle", ![g].writes = @ + 1, ![g].err = "nil",
                             ![g].sent = @ + 1]
         /\ wLock' = IF wLock = g THEN -1 ELSE wLock
    ELSE /\ wG' = [wG EXCEPT ![g].sent = @ + 1]
         /\ UNCHANGED wLock

\* writeTo: one hw.w.Write of the plain writer, straight into the pipe; it
\* waits until doPost takes the bytes or the pipe is closed
WriteChunkPlain(g) ==
    /\ wG[g].pc = "writing"
    /\ wKind = "plain"
    /\ IF PipeTakes
       THEN /\ wBody' = wBody \o Chunk(g, wG[g].sent + 1)
            /\ wAccepted' = wAccepted \o Chunk(g, wG[g].sent + 1)
            /\ AfterChunk(g, FALSE)
       ELSE /\ UNCHANGED <<wBody, wAccepted>>
            /\ AfterChunk(g, TRUE)
    /\ UNCHANGED <<wKind, wInit, wClient, wNil, wBuf, wBufErr, wPipe, wRClosed,
                   wPost, wResp, wPostErr, wFlush, wClose, wTerm, wOrder>>
    /\ UNCHANGED postRest

\* writeTo: one hw.w.Write of the buffered writer, under mu: bufio flushes a
\* buffer that cannot take the chunk and then buffers the chunk
WriteChunkBuffered(g) ==
    /\ wG[g].pc = "writing"
    /\ wKind = "buffered"
    /\ LET c == Chunk(g, wG[g].sent + 1)
       IN  IF wBufErr
           THEN /\ UNCHANGED <<wBuf, wBufErr, wBody, wAccepted>>
                /\ AfterChunk(g, TRUE)
           ELSE IF Len(wBuf) + Len(c) <= BufSize
           THEN /\ wBuf' = wBuf \o c
                /\ wAccepted' = wAccepted \o c
                /\ UNCHANGED <<wBufErr, wBody>>
                /\ AfterChunk(g, FALSE)
           ELSE IF PipeTakes
           THEN /\ wBody' = wBody \o wBuf
                /\ wBuf' = c
                /\ wAccepted' = wAccepted \o c
                /\ UNCHANGED wBufErr
                /\ AfterChunk(g, FALSE)
           ELSE /\ wBufErr' = TRUE
                /\ wBuf' = <<>>
                /\ UNCHANGED <<wBody, wAccepted>>
                /\ AfterChunk(g, TRUE)
    /\ UNCHANGED <<wKind, wInit, wClient, wNil, wPipe, wRClosed,
                   wPost, wResp, wPostErr, wFlush, wClose, wTerm, wOrder>>
    /\ UNCHANGED postRest

\* m.dst.Flush() under mu
Flush ==
    IF wBuf = <<>> \/ wBufErr THEN UNCHANGED <<wBuf, wBufErr, wBody>>
    ELSE IF PipeTakes
    THEN wBody' = wBody \o wBuf /\ wBuf' = <<>> /\ UNCHANGED wBufErr
    ELSE wBufErr' = TRUE /\ wBuf' = <<>> /\ UNCHANGED wBody

\* flushLoop: the ticker fires
FlushTick ==
    /\ wFlush = "select"
    /\ wBuf # <<>> /\ ~wBufErr
    /\ Flush
    /\ UNCHANGED <<wKind, wInit, wLock, wClient, wNil, wPipe, wRClosed, wPost, wResp,
                   wPostErr, wFlush, wG, wClose, wTerm, wOrder, wAccepted>>
    /\ UNCHANGED postRest

\* flushLoop: after it received from done it flushes and returns
FlushLast ==
    /\ wFlush = "final"
    /\ Flush
    /\ wFlush' = "done"
    /\ UNCHANGED <<wKind, wInit, wLock, wClient, wNil, wPipe, wRClosed, wPost, wResp,
                   wPostErr, wG, wClose, wTerm, wOrder, wAccepted>>
    /\ UNCHANGED postRest

\* Close: writeLock is taken
CloseLock ==
    /\ wClose.pc = "idle"
    /\ wClose.closes < MaxCloses
    /\ wLock = -1
    /\ wLock' = Closer
    /\ wClose' = [wClose EXCEPT !.pc = "locked"]
    /\ UNCHANGED <<wKind, wInit, wClient, wNil, wBuf, wBufErr, wPipe, wRClosed, wBody,
                   wPost, wResp, wPostErr, wFlush, wG, wTerm, wOrder, wAccepted>>
    /\ UNCHANGED postRest

\* Close: hw.w.Close().  On a nil hw.w the call panics and the deferred
\* Unlock runs; the plain writer closes the pipe; the buffered writer sends
\* on done, which flushLoop must receive
CloseW ==
    /\ wClose.pc = "locked"
    /\ IF wNil
       THEN /\ wClose' = [wClose EXCEPT !.pc = "panic"]
            /\ wLock' = -1
            /\ UNCHANGED <<wPipe, wNil, wFlush>>
       ELSE IF wKind = "plain"
       THEN /\ wPipe' = IF wPipe = "open" THEN "eof" ELSE wPipe
            /\ wNil' = TRUE
            /\ wClose' = [wClose EXCEPT !.pc = "waiting"]
            /\ UNCHANGED <<wLock, wFlush>>
       ELSE /\ wFlush = "select"
            /\ wFlush' = "final"
            /\ wClose' = [wClose EXCEPT !.pc = "closing"]
            /\ UNCHANGED <<wLock, wPipe, wNil>>
    /\ UNCHANGED <<wKind, wInit, wClient, wBuf, wBufErr, wRClosed, wBody,
                   wPost, wResp, wPostErr, wG, wTerm, wOrder, wAccepted>>
    /\ UNCHANGED postRest

\* maxLatencyWriter.Close after the send on done: m.c.Close()
CloseC ==
    /\ wClose.pc = "closing"
    /\ wPipe' = IF wPipe = "open" THEN "eof" ELSE wPipe
    /\ wNil' = TRUE
    /\ wClose' = [wClose EXCEPT !.pc = "waiting"]
    /\ UNCHANGED <<wKind, wInit, wLock, wClient, wBuf, wBufErr, wRClosed, wBody,
                   wPost, wResp, wPostErr, wFlush, wG, wTerm, wOrder, wAccepted>>
    /\ UNCHANGED postRest

\* Close: err = <-hw.clientErr, which doPost must send; the client goes back
\* to the pool and Close returns
CloseReceive ==
    /\ wClose.pc = "waiting"
    /\ wPost = "replying"
    /\ wPost' = "done"
    /\ wClient' = FALSE
    /\ wLock' = -1
    /\ wClose' = [pc |-> "idle", closes |-> wClose.closes + 1, err |-> wPostErr]
    /\ UNCHANGED <<wKind, wInit, wNil, wBuf, wBufErr, wPipe, wRClosed, wBody,
                   wResp, wPostErr, wFlush, wG, wTerm, wOrder, wAccepted>>
    /\ UNCHANGED postRest

\* a Terminate that closes the pipe as Close does
TerminateClean ==
    /\ ~wTerm
    /\ wTerm' = TRUE
    /\ wPipe' = IF wPipe = "open" THEN "eof" ELSE wPipe
    /\ UNCHANGED <<wKind, wInit, wLock, wClient, wNil, wBuf, wBufErr, wRClosed, wBody,
                   wPost, wResp, wPostErr, wFlush, wG, wClose, wOrder, wAccepted>>
    /\ UNCHANGED postRest

\* Terminate: pw.CloseWithError; the first close of the pipe is the one kept
Terminate ==
    /\ ~wTerm
    /\ wTerm' = TRUE
    /\ wPipe' = IF wPipe = "open" THEN "err" ELSE wPipe
    /\ UNCHANGED <<wKind, wInit, wLock, wClient, wNil, wBuf, wBufErr, wRClosed, wBody,
                   wPost, wResp, wPostErr, wFlush, wG, wClose, wOrder, wAccepted>>
    /\ UNCHANGED postRest

\* doPost: client.Do returns a response, at the end of the body or before;
\* the deferred r.Close() runs and doPost offers err on clientErr
PostResponds(code) ==
    /\ wPost = "doing"
    /\ wPipe # "err"
    /\ code = "200" => wPipe = "eof"
    /\ wResp' = code
    /\ wPostErr' = "nil"
    /\ wRClosed' = TRUE
    /\ wPost' = "replying"
    /\ UNCHANGED <<wKind, wInit, wLock, wClient, wNil, wBuf, wBufErr, wPipe, wBody,
                   wFlush, wG, wClose, wTerm, wOrder, wAccepted>>
    /\ UNCHANGED postRest

\* doPost: client.Do returns an error: the transport failed or the body
\* ended with the error of Terminate
PostFails ==
    /\ wPost = "doing"
    /\ wPostErr' = "transport error"
    /\ wRClosed' = TRUE
    /\ wPost' = "replying"
    /\ UNCHANGED <<wKind, wInit, wLock, wClient, wNil, wBuf, wBufErr, wPipe, wBody,
                   wResp, wFlush, wG, wClose, wTerm, wOrder, wAccepted>>
    /\ UNCHANGED postRest

PostNext ==
    \/ \E g \in Writers : WriteLock(g)
    \/ \E g \in Writers : WriteBegin(g)
    \/ \E g \in Writers : WriteChunkPlain(g)
    \/ \E g \in Writers : WriteChunkBuffered(g)
    \/ FlushTick
    \/ FlushLast
    \/ CloseLock
    \/ CloseW
    \/ CloseC
    \/ CloseReceive
    \/ Terminate
    \/ \E code \in {"200", "500"} : PostResponds(code)
    \/ PostFails

SpecPost == PostInit /\ [][PostNext]_vars

\* every goroutine that can take a step eventually takes one, and the HTTP
\* request eventually completes or fails
PostFairness ==
    /\ \A g \in Writers : WF_vars(WriteLock(g)) /\ WF_vars(WriteBegin(g))
    /\ \A g \in Writers : WF_vars(WriteChunkPlain(g)) /\ WF_vars(WriteChunkBuffered(g))
    /\ WF_vars(FlushTick) /\ WF_vars(FlushLast)
    /\ WF_vars(CloseW) /\ WF_vars(CloseC) /\ WF_vars(CloseReceive)
    /\ WF_vars(\E code \in {"200", "500"} : PostResponds(code))
    /\ WF_vars(PostFails)

SpecPostLive == SpecPost /\ PostFairness

-----------------------------------------------------------------------------
(* ReadFile on an input, and the File it returns at work.                  *)

\* the inputs: what the reader handed to ReadFile implements besides Read
InputKinds == {[seeker |-> s, readerAt |-> a] : s \in BOOLEAN, a \in BOOLEAN}

\* the 8 bytes of a length field: the lengths up to MaxContent and the two
\* largest values of a uint64
LengthFields ==
    {PutU64(n) : n \in 0..MaxContent}
      \cup {[j \in 1..8 |-> IF j = 8 THEN 255 - d ELSE 255] : d \in 0..1}

\* the header of a record
DecodeHeaders == {AttrsWriteTo(a) : a \in SeqsUpTo(CodecAttrs, 1)}

ReadFileInit ==
    /\ DecodeRestIdle
    /\ rpc = "start"
    /\ \E h \in DecodeHeaders, l \in LengthFields, c \in SeqsUpTo(CodecBytes, MaxContent),
          cut \in 0..1 :
         /\ rIn = LET wire == h \o l \o c
                  IN  IF cut = 1 THEN Take(wire, Len(h) + 7) ELSE wire
         /\ rHdr = Len(h)
    /\ rKind \in InputKinds
    /\ rPos = 0
    /\ rFile = NoFile
    /\ rErr = "nil"
    /\ rOp = NoOp

DoReadFile ==
    /\ rpc = "start"
    /\ LET d == ReadFile(rIn, rPos, rKind.seeker, rKind.readerAt)
       IN  /\ rFile' = d.f
           /\ rErr' = d.err
           /\ rPos' = d.pos
    /\ rpc' = "decoded"
    /\ UNCHANGED <<rIn, rKind, rOp, rHdr>>
    /\ UNCHANGED decodeRest

\* File.Reset on the File returned
DecodedReset ==
    /\ rpc = "decoded"
    /\ rErr = "nil"
    /\ rFile' = FileReset(rFile).f
    /\ rOp' = OpResult("Reset", FileReset(rFile).err, <<>>, 0)
    /\ UNCHANGED <<rpc, rIn, rKind, rPos, rErr, rHdr>>
    /\ UNCHANGED decodeRest

\* File.Read on the File returned
DecodedRead(k) ==
    /\ rpc = "decoded"
    /\ rErr = "nil"
    /\ LET x == FileRead(rFile, rIn, rPos, "none", k)
       IN  /\ rFile' = x.f
           /\ rPos' = x.pos
           /\ rOp' = OpResult("Read", x.err, x.bytes, x.pos - rPos)
    /\ UNCHANGED <<rpc, rIn, rKind, rErr, rHdr>>
    /\ UNCHANGED decodeRest

DecodeNext == DoReadFile \/ DecodedReset \/ (\E k \in 1..MaxBuf : DecodedRead(k))

SpecDecode == ReadFileInit /\ [][DecodeNext]_vars

-----------------------------------------------------------------------------
(* Handshake calls on one HTTPTransaction, each a whole call: the answers *)
(* differ in status, Accept, protocol version and Max-Partition-Size.     *)

\* Accept headers: the type alone, the header NiFi sends, the type after a
\* comma and a space, another type
AcceptHeaders ==
    {ContentTypeFF3,
     ContentTypeFF3 \o <<44, 42, 47, 42, 59, 113, 61, 48, 46, 56>>,
     <<42, 47, 42, 44, 32>> \o ContentTypeFF3,
     <<116, 101, 120, 116, 47, 112, 108, 97, 105, 110>>}

\* x-nifi-transfer-protocol-version: "3", "2"
VersionHeaders == {<<51>>, <<50>>}

\* Max-Partition-Size: absent, "4", "x"
MaxPartitionHeaders == {<<>>, <<52>>, <<120>>}

ShakeReplies ==
    {Reply(TRUE, 0, "u0", <<>>, <<>>, <<>>, "")}
    \cup {Reply(FALSE, st, IF st = 200 THEN "u1" ELSE "u0", a, v, mp, "s1") :
             st \in {200, 405, 500}, a \in AcceptHeaders, v \in VersionHeaders,
             mp \in MaxPartitionHeaders}

\* NewHTTPTransaction up to its call of Handshake
ShakeInit ==
    /\ ShakeRestIdle
    /\ kHs = HTTPTransaction("u0", "", <<>>, 0, 0)
    /\ kOld = kHs
    /\ kReply = NoReply
    /\ kTxid = <<>>
    /\ kErr = "nil"
    /\ kCalls = 0
    /\ kUuid = 0

\* one call of Handshake
DoHandshake(reply) ==
    /\ kCalls < MaxHandshakes
    /\ kCalls' = kCalls + 1
    /\ kOld' = kHs
    /\ kReply' = reply
    /\ kTxid' = Uuid(kUuid)
    /\ kUuid' = kUuid + 1
    /\ kHs' = Handshake(kHs, reply, Uuid(kUuid)).hs
    /\ kErr' = Handshake(kHs, reply, Uuid(kUuid)).err
    /\ UNCHANGED shakeRest

ShakeNext == \E reply \in ShakeReplies : DoHandshake(reply)

SpecShake == ShakeInit /\ [][ShakeNext]_vars

-----------------------------------------------------------------------------
(* Fragments of one parent saved into the same target file: one            *)
(* saveRegular call per fragment, running concurrently.  A system call is  *)
(* one action; io.Copy is one action per Write.                            *)

RECURSIVE Total(_)
\* the sum of a sequence of numbers
Total(c) == IF Len(c) = 0 THEN 0 ELSE c[1] + Total(Tail(c))

\* the ways to cut size bytes into fragments: the lengths of the fragments
Tilings(size) == {c \in SeqsUpTo(1..size, size) : Total(c) = size}

\* the fragments of a parent cut into the lengths c, with the attributes
\* segment.original.size and fragment.offset as SegmentBySize writes them
FragmentsOf(orig, c) ==
    [j \in 1..Len(c) |->
        [size |-> Itoa(Len(orig)),
         offset |-> Itoa(Total(Take(c, j - 1))),
         data |-> SubSeq(orig, Total(Take(c, j - 1)) + 1, Total(Take(c, j)))]]

\* the parents: every byte differs from a zero and from the others
Parents == {[j \in 1..size |-> j] : size \in 1..MaxParent}

\* the target file
Disk(exists, data) == [exists |-> exists, data |-> data]

\* the polls saveRegular makes while Stat fails
StatRetries == 10

\* pwrite: the file after bytes were written at the offset pos
WriteAt(data, pos, bytes) ==
    [j \in 1..Max(Len(data), pos + Len(bytes)) |->
        IF j > pos /\ j <= pos + Len(bytes) THEN bytes[j - pos]
        ELSE IF j <= Len(data) THEN data[j]
        ELSE 0]

\* a saveRegular call: where it is, the zeros still to write, the polls
\* made, the last result of Stat, the bytes of the fragment written, the
\* error returned
SaveCall(pc, z, i, statErr, statSize, w, err) ==
    [pc |-> pc, z |-> z, i |-> i, statErr |-> statErr, statSize |-> statSize,
     w |-> w, err |-> err, created |-> FALSE]

\* strconv.ParseUint(sz, 10, 64) of segment.original.size
parentSize(p) == ParseUint(vFrags[p].size, 0)

\* strconv.ParseUint of fragment.offset
offset(p) == ParseUint(vFrags[p].offset, 0)

\* what the target file holds before the first Save: nothing, or what an
\* earlier run left of it
SaveInit ==
    /\ SaveRestIdle
    /\ vOrig \in Parents
    /\ \E c \in Tilings(Len(vOrig)) : vFrags = FragmentsOf(vOrig, c)
    /\ vEnv = "ok"
    /\ vDisk = Disk(FALSE, <<>>)
    /\ vProc = [p \in DOMAIN vFrags |-> SaveCall("start", 0, 0, FALSE, 0, 0, "nil")]
    /\ vMarks = {}

\* the same with the targets a saveRegular call can meet: a file left short
\* or long by an earlier run, a path that cannot be created or stat'ed
SavePollInit ==
    /\ SaveRestIdle
    /\ vOrig \in Parents
    /\ \E c \in Tilings(Len(vOrig)) : vFrags = FragmentsOf(vOrig, c)
    /\ \/ vEnv = "ok" /\ vDisk = Disk(FALSE, <<>>)
       \/ vEnv = "ok" /\ \E k \in 0..(Len(vOrig) + 1) : vDisk = Disk(TRUE, [j \in 1..k |-> 0])
       \/ vEnv = "nostat" /\ vDisk = Disk(FALSE, <<>>)
    /\ vProc = [p \in DOMAIN vFrags |-> SaveCall("start", 0, 0, FALSE, 0, 0, "nil")]
    /\ vMarks = {}

\* os.OpenFile(outputFile, O_RDWR|O_CREATE|O_EXCL): the call that finds no
\* file creates it and goes on to fill it with zeros
SaveCreate(p) ==
    /\ vProc[p].pc = "start"
    /\ IF vEnv = "ok" /\ ~vDisk.exists
       THEN /\ vDisk' = Disk(TRUE, <<>>)
            /\ vProc' = [vProc EXCEPT ![p].pc = "zeros", ![p].z = parentSize(p),
                                      ![p].created = TRUE]
       ELSE /\ vProc' = [vProc EXCEPT ![p].pc = "stat"]
            /\ UNCHANGED vDisk
    /\ UNCHANGED <<vOrig, vFrags, vEnv, vMarks>>
    /\ UNCHANGED saveRest

\* the offsets the next Write of the zero fill covers
ZeroSpan(p) ==
    {j \in 1..parentSize(p) :
        /\ j > parentSize(p) - vProc[p].z
        /\ j <= parentSize(p) - vProc[p].z + Min(MaxChunk, vProc[p].z)}

\* io.Copy(fh, &zeros{n: parentSize}): one Write, or the end of the copy
\* and fh.Close()
SaveZeros(p) ==
    /\ vProc[p].pc = "zeros"
    /\ IF vProc[p].z > 0
       THEN /\ vDisk' = [vDisk EXCEPT !.data =
                           WriteAt(vDisk.data, parentSize(p) - vProc[p].z,
                                   [j \in 1..Min(MaxChunk, vProc[p].z) |-> 0])]
            /\ vProc' = [vProc EXCEPT ![p].z = vProc[p].z - Min(MaxChunk, vProc[p].z)]
       ELSE /\ vProc' = [vProc EXCEPT ![p].pc = "stat"]
            /\ UNCHANGED vDisk
    /\ UNCHANGED <<vOrig, vFrags, vEnv, vMarks>>
    /\ UNCHANGED saveRest

\* os.Stat(outputFile): the error and the size it returns now
StatNow(call) ==
    [call EXCEPT !.statErr = (vEnv = "nostat") \/ ~vDisk.exists,
                 !.statSize = IF vEnv = "nostat" \/ ~vDisk.exists THEN 0
                              ELSE Len(vDisk.data)]

\* stat, err = os.Stat(outputFile) before the loop
SaveStat(p) ==
    /\ vProc[p].pc = "stat"
    /\ vProc' = [vProc EXCEPT ![p] = [StatNow(vProc[p]) EXCEPT !.pc = "loop"]]
    /\ UNCHANGED <<vOrig, vFrags, vEnv, vDisk, vMarks>>
    /\ UNCHANGED saveRest

\* the condition of the loop is evaluated on a nil stat: err != nil and
\* i >= 10, so that stat.Size() is called
StatIsNil(call) == call.statErr /\ call.i >= StatRetries

\* a loop that waits for the file to exist, not for its size
LoopConditionExists(p) == vProc[p].statErr /\ vProc[p].i < StatRetries

\* err != nil && i < 10 || uint64(stat.Size()) < parentSize
LoopCondition(p) ==
    \/ vProc[p].statErr /\ vProc[p].i < StatRetries
    \/ vProc[p].statSize < parentSize(p)

\* one round of the loop: time.Sleep, os.Stat, i++.  The loop only asks
\* whether i < 10, so i is counted up to 10
SavePoll(p) ==
    /\ vProc[p].pc = "loop"
    /\ ~StatIsNil(vProc[p])
    /\ LoopCondition(p)
    /\ vProc' = [vProc EXCEPT ![p] = [StatNow(vProc[p]) EXCEPT
                                        !.i = Min(vProc[p].i + 1, StatRetries)]]
    /\ UNCHANGED <<vOrig, vFrags, vEnv, vDisk, vMarks>>
    /\ UNCHANGED saveRest

\* the loop ends: stat.Size() on a nil stat panics; a file of the size of
\* the parent is opened and the offset is sought; any other size returns
\* the err of the last Stat, which is nil
SaveLoopEnd(p) ==
    /\ vProc[p].pc = "loop"
    /\ StatIsNil(vProc[p]) \/ ~LoopCondition(p)
    /\ vProc' = [vProc EXCEPT ![p].pc =
                    IF StatIsNil(vProc[p]) THEN "panic"
                    ELSE IF vProc[p].statSize = parentSize(p) THEN "copy"
                    ELSE "returned"]
    /\ UNCHANGED <<vOrig, vFrags, vEnv, vDisk, vMarks>>
    /\ UNCHANGED saveRest

\* the offsets the next Write of the fragment covers
CopySpan(p) ==
    {j \in 1..(offset(p) + Len(vFrags[p].data)) :
        /\ j > offset(p) + vProc[p].w
        /\ j <= offset(p) + vProc[p].w + Min(MaxChunk, Len(vFrags[p].data) - vProc[p].w)}

\* io.Copy(fh, f) after the Seek: one Write at the offset reached, or the
\* end of the copy and the return of saveRegular
SaveCopy(p) ==
    /\ vProc[p].pc = "copy"
    /\ IF vProc[p].w < Len(vFrags[p].data)
       THEN LET k == Min(MaxChunk, Len(vFrags[p].data) - vProc[p].w)
            IN  /\ vDisk' = [vDisk EXCEPT !.data =
                               WriteAt(vDisk.data, offset(p) + vProc[p].w,
                                       SubSeq(vFrags[p].data, vProc[p].w + 1,
                                              vProc[p].w + k))]
                /\ vMarks' = vMarks \cup CopySpan(p)
                /\ vProc' = [vProc EXCEPT ![p].w = vProc[p].w + k]
       ELSE /\ vProc' = [vProc EXCEPT ![p].pc = "returned"]
            /\ UNCHANGED <<vDisk, vMarks>>
    /\ UNCHANGED <<vOrig, vFrags, vEnv>>
    /\ UNCHANGED saveRest

SaveNext ==
    \/ \E p \in DOMAIN vProc : SaveCreate(p)
    \/ \E p \in DOMAIN vProc : SaveZeros(p)
    \/ \E p \in DOMAIN vProc : SaveStat(p)
    \/ \E p \in DOMAIN vProc : SavePoll(p)
    \/ \E p \in DOMAIN vProc : SaveLoopEnd(p)
    \/ \E p \in DOMAIN vProc : SaveCopy(p)

SpecSave == SaveInit /\ [][SaveNext]_vars

SpecSavePoll == SavePollInit /\ [][SaveNext]_vars

\* every saveRegular call that can take a step eventually takes one
SaveFairness ==
    \A p \in 1..MaxParent :
        /\ WF_vars(p \in DOMAIN vProc /\ SaveCreate(p))
        /\ WF_vars(p \in DOMAIN vProc /\ SaveZeros(p))
        /\ WF_vars(p \in DOMAIN vProc /\ SaveStat(p))
        /\ WF_vars(p \in DOMAIN vProc /\ SavePoll(p))
        /\ WF_vars(p \in DOMAIN vProc /\ SaveLoopEnd(p))
        /\ WF_vars(p \in DOMAIN vProc /\ SaveCopy(p))

SpecSavePollLive == SpecSavePoll /\ SaveFairness

-----------------------------------------------------------------------------
(* One attribute set, empty at first, and the calls made on it: Set, Unset, *)
(* ReadFrom; UnmarshalBinary and UnmarshalJSON as well in the second       *)
(* specification.                                                          *)

AttrNames == {N_a, N_filename}

AttrValues == {V_x, V_dir_x}

\* attribute sequences as a sender or a document may hold them: none, one
\* attribute, a filename with a directory part, a name twice
AttrSeqs ==
    {<<>>,
     <<Attribute(N_a, V_dir_x)>>,
     <<Attribute(N_filename, V_dir_x)>>,
     <<Attribute(N_a, V_x), Attribute(N_a, V_dir_x)>>,
     <<Attribute(N_filename, V_x), Attribute(N_a, V_x)>>}

\* well-formed headers
WholeHeaders == {AttrsWriteTo(h) : h \in AttrSeqs}

\* "NiFiEOX": neither magic
OtherMagic == <<78, 105, 70, 105, 69, 79, 88>>

\* what ReadFrom is given: headers, whole or cut anywhere, the end marker,
\* bytes that are neither
HeaderInputs ==
    UNION {{Take(w, k) : k \in 0..Len(w)} : w \in WholeHeaders}
    \cup {FlowFileEOF, FlowFileEOF \o <<0, 1>>, OtherMagic, OtherMagic \o <<0, 0>>}

\* what UnmarshalJSON is given: objects of string members, an object with a
\* number in it, an array
JSONInputs ==
    {JSONDoc(TRUE, [j \in 1..Len(h) |-> Member(h[j].Name, h[j].Value, TRUE)]) :
        h \in AttrSeqs}
    \cup {JSONDoc(TRUE, <<Member(N_a, V_x, FALSE)>>), JSONDoc(FALSE, <<>>)}

\* a call and what it returned
AttrOp(op, name, val, in, before, ok, err) ==
    [op |-> op, name |-> name, val |-> val, in |-> in, before |-> before,
     ok |-> ok, err |-> err]

AttrsInit ==
    /\ AttrsRestIdle
    /\ aH = <<>>
    /\ aOp = AttrOp("none", <<>>, <<>>, <<>>, <<>>, FALSE, "nil")

\* h.Set(name, val)
ASet(name, val) ==
    /\ aH' = Set(aH, name, val)
    /\ aOp' = AttrOp("Set", name, val, <<>>, aH, FALSE, "nil")
    /\ UNCHANGED attrsRest

\* h.Unset(name)
AUnset(name) ==
    /\ aH' = Unset(aH, name)
    /\ aOp' = AttrOp("Unset", name, <<>>, <<>>, aH,
                     \E j \in 1..Len(aH) : aH[j].Name = name, "nil")
    /\ UNCHANGED attrsRest

\* h.ReadFrom(bytes.NewBuffer(in))
AReadFrom(in) ==
    /\ aH' = AttrsReadFrom(in, aH).attrs
    /\ aOp' = AttrOp("ReadFrom", <<>>, <<>>, in, aH, FALSE, AttrsReadFrom(in, aH).err)
    /\ UNCHANGED attrsRest

\* h.UnmarshalBinary(in): ReadFrom on an emptied set
AUnmarshalBinary(in) ==
    /\ aH' = AttrsReadFrom(in, <<>>).attrs
    /\ aOp' = AttrOp("UnmarshalBinary", <<>>, <<>>, in, aH, FALSE,
                     AttrsReadFrom(in, <<>>).err)
    /\ UNCHANGED attrsRest

\* h.UnmarshalJSON(in)
AUnmarshalJSON(doc) ==
    /\ aH' = UnmarshalJSON(aH, doc).attrs
    /\ aOp' = AttrOp("UnmarshalJSON", <<>>, <<>>, doc, aH, FALSE,
                     UnmarshalJSON(aH, doc).err)
    /\ UNCHANGED attrsRest

AttrsNext ==
    \/ \E nm \in AttrNames, v \in AttrValues : ASet(nm, v)
    \/ \E nm \in AttrNames : AUnset(nm)
    \/ \E in \in HeaderInputs : AReadFrom(in)

AttrsJSONNext ==
    \/ \E nm \in AttrNames, v \in AttrValues : ASet(nm, v)
    \/ \E in \in HeaderInputs : AReadFrom(in)
    \/ \E in \in WholeHeaders : AUnmarshalBinary(in)
    \/ \E doc \in JSONInputs : AUnmarshalJSON(doc)

SpecAttrs == AttrsInit /\ [][AttrsNext]_vars

SpecAttrsJSON == AttrsInit /\ [][AttrsJSONNext]_vars

-----------------------------------------------------------------------------
(* The receiver at work: HTTPReceiver.ServeHTTP serves one POST.  The      *)
(* handler is the caller's: it scans, reads, and returns.  The Scanner is  *)
(* modelled from section 4.4 of the specification.                         *)

\* strings.ToLower on the bytes of an ASCII string
ToLower(b) == [j \in 1..Len(b) |-> IF b[j] >= 65 /\ b[j] <= 90 THEN b[j] + 32 ELSE b[j]]

\* "text/plain"
ContentTypeText == <<116, 101, 120, 116, 47, 112, 108, 97, 105, 110>>

ContentTypes == {ContentTypeFF3, ToUpper(ContentTypeFF3), ContentTypeText, <<>>}

\* the bodies posted: plain bytes, one encoded record
Bodies ==
    SeqsUpTo({7, 8}, MaxBody)
    \cup {RecordWire(Record(a, c)) : a \in {<<>>, <<Attribute(N_a, V_x)>>},
                                     c \in {<<>>, <<7>>}}

Request(ct, cl, body) == [ct |-> ct, cl |-> cl, body |-> body]

\* a POST has arrived; its Content-Length is the length of the body, or is
\* not given
RecvInit ==
    /\ RecvRestIdle
    /\ \E ct \in ContentTypes, body \in Bodies, given \in BOOLEAN :
         qReq = Request(ct, IF given THEN Itoa(Len(body)) ELSE <<>>, body)
    /\ qState = "request"
    /\ qCh = <<>>
    /\ qFile = NoFile
    /\ qPos = 0
    /\ qGot = <<>>
    /\ qScans = 0
    /\ qOp = NoOp

\* the Content-Length header parses
HasLength(req) == req.cl # <<>> /\ ParseUint(req.cl, 0) >= 0

\* the branch of ServeHTTP that takes the body for a stream of records
IsFlowFileV3(req) == ToLower(req.ct) = ContentTypeFF3

\* the File ServeHTTP makes of a body that is no stream of records
AnonymousFile(N) == [NoFile EXCEPT !.r = TRUE, !.n = N]

\* ServeHTTP, case "POST", up to the call of the handler
ServePost ==
    /\ qState = "request"
    /\ IF IsFlowFileV3(qReq)
       THEN qState' = "idle" /\ qCh' = <<>>
       ELSE IF HasLength(qReq)
       THEN qState' = "idle" /\ qCh' = <<AnonymousFile(ParseUint(qReq.cl, 0))>>
       ELSE qState' = "served" /\ qCh' = <<>>
    /\ qOp' = NoOp
    /\ UNCHANGED <<qReq, qFile, qPos, qGot, qScans>>
    /\ UNCHANGED recvRest

\* the handler calls Scan on the Scanner of a stream of records
RecvScanStream ==
    /\ IsFlowFileV3(qReq)
    /\ qState \in {"idle", "have-record"}
    /\ LET c == IF qState = "have-record"
                THEN FileClose(qFile, qReq.body, qPos, "none")
                ELSE FileResult(qFile, qPos, "none", <<>>, "nil")
           d == ReadFile(qReq.body, c.pos, FALSE, FALSE)
       IN  /\ qPos' = d.pos
           /\ qFile' = d.f
           /\ qState' = IF d.err = "nil" THEN "have-record"
                        ELSE IF d.err = "EOF" THEN "exhausted" ELSE "errored"
           /\ qOp' = OpResult("Scan", IF d.err = "nil" THEN "true" ELSE "false", <<>>,
                              d.pos - qPos)
    /\ qGot' = <<>>
    /\ qScans' = qScans + 1
    /\ UNCHANGED <<qReq, qCh>>
    /\ UNCHANGED recvRest

\* the handler calls Scan on the Scanner of one anonymous record
RecvScanOne ==
    /\ ~IsFlowFileV3(qReq)
    /\ qState \in {"idle", "have-record"}
    /\ LET c == IF qState = "have-record"
                THEN FileClose(qFile, qReq.body, qPos, "none")
                ELSE FileResult(qFile, qPos, "none", <<>>, "nil")
       IN  /\ qPos' = c.pos
           /\ IF qCh # <<>>
              THEN /\ qFile' = Head(qCh)
                   /\ qCh' = Tail(qCh)
                   /\ qState' = "have-record"
                   /\ qOp' = OpResult("Scan", "true", <<>>, 0)
              ELSE /\ qFile' = c.f
                   /\ qCh' = qCh
                   /\ qState' = "exhausted"
                   /\ qOp' = OpResult("Scan", "false", <<>>, c.pos - qPos)
    /\ qGot' = <<>>
    /\ qScans' = qScans + 1
    /\ UNCHANGED qReq
    /\ UNCHANGED recvRest

\* the handler reads from the record at hand: s.File().Read(p), len(p) = k
RecvRead(k) ==
    /\ qState = "have-record"
    /\ LET x == FileRead(qFile, qReq.body, qPos, "none", k)
       IN  /\ qFile' = x.f
           /\ qPos' = x.pos
           /\ qGot' = qGot \o x.bytes
           /\ qOp' = OpResult("Read", x.err, x.bytes, x.pos - qPos)
    /\ UNCHANGED <<qReq, qState, qCh, qScans>>
    /\ UNCHANGED recvRest

\* the handler returns: ServeHTTP discards what is left of the body
RecvReturn ==
    /\ qState \in {"idle", "have-record", "exhausted", "errored"}
    /\ qState' = "served"
    /\ qPos' = Len(qReq.body)
    /\ qOp' = NoOp
    /\ UNCHANGED <<qReq, qCh, qFile, qGot, qScans>>
    /\ UNCHANGED recvRest

RecvNext ==
    \/ ServePost
    \/ RecvScanStream
    \/ RecvScanOne
    \/ \E k \in 1..MaxBuf : RecvRead(k)
    \/ RecvReturn

SpecRecv == RecvInit /\ [][RecvNext]_vars

-----------------------------------------------------------------------------
(* The fragments of one SegmentBySize call, read and closed in any order.  *)
(* The File that is segmented is one New made of a ReaderAt or one         *)
(* NewFromDisk made, unread or with its first byte read.  The field        *)
(* fileAutoOpen that SegmentBySize tests is declared and set nowhere in    *)
(* the sources: it takes either value.                                     *)

\* SegmentBySize on a File whose fileAutoOpen is false: the fragments keep
\* the reader of the File, ra: in.ra
SegmentBySizeShared(in, segmentSize, k) ==
    LET x == SegmentBySize(in, segmentSize, k)
    IN  IF x.out = <<in>> \/ x.err # "nil" THEN x
        ELSE [x EXCEPT !.out = [j \in 1..Len(x.out) |-> [x.out[j] EXCEPT !.ra = in.ra]]]

\* the fragment holds the handle the parent had opened
UsesShared(f) == f.filePath /\ f.ra

FragCall(j, op, err, bytes, window, shared) ==
    [j |-> j, op |-> op, err |-> err, bytes |-> bytes, window |-> window,
     shared |-> shared]

\* a File of size bytes, of which done were read, is about to be segmented
FragInit ==
    /\ FragRestIdle
    /\ bpc = "start"
    /\ \E kind \in {"ra", "path"}, size \in 1..MaxSize, done \in 0..MaxDone :
         /\ done <= size
         /\ bData = Source(size)
         /\ bFrags = <<File(<<>>, done, size - done, size, FALSE,
                            kind = "ra" \/ done > 0, kind = "path")>>
         /\ bShared = IF kind = "path" /\ done > 0 THEN "open" ELSE "none"
    /\ bAuto \in BOOLEAN
    /\ bOwn = <<>>
    /\ bClosed = {}
    /\ bOp = <<>>

\* SegmentBySize(in, segmentSize) on a File that it splits
FragSegment(segmentSize) ==
    /\ bpc = "start"
    /\ bFrags[1].Size >= segmentSize
    /\ LET in == bFrags[1]
           opened == UsesShared(in)
           x == IF opened /\ ~bAuto THEN SegmentBySizeShared(in, segmentSize, 0)
                ELSE SegmentBySize(in, segmentSize, 0)
       IN  /\ bFrags' = x.out
           /\ bShared' = IF opened /\ bAuto THEN "closed" ELSE bShared
           /\ bOwn' = [j \in 1..Len(x.out) |-> "none"]
    /\ bpc' = "segmented"
    /\ bOp' = <<>>
    /\ UNCHANGED <<bData, bAuto, bClosed>>
    /\ UNCHANGED fragRest

\* the handle a call on fragment j works with
HandleOf(j) == IF UsesShared(bFrags[j]) /\ bOwn[j] = "none" THEN bShared ELSE bOwn[j]

\* Read(p) on fragment j, len(p) = k
FragRead(j, k) ==
    /\ bpc = "segmented"
    /\ j \in 1..Len(bFrags)
    /\ LET f == bFrags[j]
           shared == UsesShared(f) /\ bOwn[j] = "none"
           x == FileRead(f, bData, 0, HandleOf(j), k)
       IN  /\ bFrags' = [bFrags EXCEPT ![j] = x.f]
           /\ IF shared
              THEN bShared' = x.fh /\ UNCHANGED bOwn
              ELSE bOwn' = [bOwn EXCEPT ![j] = x.fh] /\ UNCHANGED bShared
           /\ bOp' = FragCall(j, "Read", x.err, x.bytes,
                              Take(Drop(bData, f.i), Min(k, Max(f.n, 0))), shared)
    /\ UNCHANGED <<bpc, bData, bAuto, bClosed>>
    /\ UNCHANGED fragRest

\* Close on fragment j
FragClose(j) ==
    /\ bpc = "segmented"
    /\ j \in 1..Len(bFrags)
    /\ LET f == bFrags[j]
           shared == UsesShared(f) /\ bOwn[j] = "none"
           x == FileClose(f, bData, 0, HandleOf(j))
       IN  /\ bFrags' = [bFrags EXCEPT ![j] = x.f]
           /\ IF shared
              THEN bShared' = x.fh /\ UNCHANGED bOwn
              ELSE bOwn' = [bOwn EXCEPT ![j] = x.fh] /\ UNCHANGED bShared
           /\ bOp' = FragCall(j, "Close", x.err, <<>>, <<>>, shared)
    /\ bClosed' = bClosed \cup {j}
    /\ UNCHANGED <<bpc, bData, bAuto>>
    /\ UNCHANGED fragRest

FragNext ==
    \/ \E segmentSize \in 1..MaxSize : FragSegment(segmentSize)
    \/ \E j \in 1..MaxSize, k \in 1..MaxBuf : FragRead(j, k)
    \/ \E j \in 1..MaxSize : FragClose(j)

SpecFrags == FragInit /\ [][FragNext]_vars

-----------------------------------------------------------------------------
(* C1 *)

NoDuplicateNames(h) ==
    \A j, k \in 1..Len(h) : h[j].Name = h[k].Name => j = k

FilenameIsSanitized(h) ==
    \A j \in 1..Len(h) :
        h[j].Name = N_filename => \A k \in 1..Len(h[j].Value) : h[j].Value[k] # Slash

FitsUint16(h) ==
    /\ Len(h) < U16Mod
    /\ \A j \in 1..Len(h) : Len(h[j].Name) < U16Mod /\ Len(h[j].Value) < U16Mod

\* C1 as stated: for every attribute sequence A and content C, decoding the
\* encoding of (A, C) and reading the content to its end gives back A (same
\* names, values and order) and C.
C1_RoundTripAny ==
    cpc = "read" => cFile.Attrs = cA /\ cOut = cC

\* C1, amended: the round trip gives back A and C for every attribute
\* sequence A in which no name occurs twice, whose filename value has no
\* directory part, and whose count, names and values fit a uint16; the
\* decoder reports no error for it.
C1_RoundTrip ==
    (cpc \in {"decoded", "read"} /\ NoDuplicateNames(cA) /\ FilenameIsSanitized(cA)
        /\ FitsUint16(cA))
    => /\ cErr = "nil"
       /\ cFile.Attrs = cA
       /\ cFile.Size = Len(cC)
       /\ cpc = "read" => cOut = cC

\* a File with two attributes and one content byte went through the round trip
C1_Witness ==
    /\ cpc = "read"
    /\ Len(cA) = 2
    /\ NoDuplicateNames(cA)
    /\ FilenameIsSanitized(cA)
    /\ Len(cC) > 0
    /\ cOut = cC

-----------------------------------------------------------------------------
(* C2 *)

\* after the k-th Scan of an input of N records, k <= N: Scan returned true,
\* the record at hand has the k-th record's attributes and length, and the
\* input stands at the first byte of its content, none of it read
ScanExposes(k) ==
    /\ sState = "have-record"
    /\ sFile.Attrs = sRecs[k].attrs
    /\ sFile.Size = Len(sRecs[k].content)
    /\ sOp.op = "Scan" => /\ sOp.err = "true"
                          /\ sFile.n = sFile.Size
                          /\ sPos = ContentStart(sRecs, k)

\* after Scan N + 1: false, and no error
ScanExhausted ==
    /\ sState = "exhausted"
    /\ sErr = "nil"
    /\ sOp.op = "Scan" => sOp.err = "false"

\* C2: on an input of N >= 0 well-formed records, sequential-only or
\* random-access, Scan returns true exactly N times, the k-th call exposing
\* the k-th record's attributes before any byte of its content was read, and
\* the (N+1)-th call returns false with no error.
C2_ScanYieldsEveryRecord ==
    /\ (sScans \in 1..Len(sRecs)) => ScanExposes(sScans)
    /\ (sScans > Len(sRecs)) => ScanExhausted

\* the same for a sequential-only input
C2_ScanYieldsEveryRecordSeq ==
    sKind = "seq" => C2_ScanYieldsEveryRecord

-----------------------------------------------------------------------------
(* C3 *)

\* SegmentBySize was called with 0 < K < S on an unread random-access File
SegmentedProperly ==
    /\ gpc = "done"
    /\ gParent.ra /\ ~gParent.filePath
    /\ gParent.n = gParent.Size
    /\ 0 < gK /\ gK < gParent.Size

\* the window of fragment j relative to the start of the parent's content
WinOffset(j) == gOut[j].i - gStart

WinLength(j) == gOut[j].Size

\* ceil(S / K)
CeilDiv(S, K) == (S + K - 1) \div K

\* the fragments' windows tile [0, S): pairwise disjoint, no gap
Tiles(S) ==
    /\ Len(gOut) > 0
    /\ WinOffset(1) = 0
    /\ \A j \in 1..Len(gOut) : WinLength(j) > 0
    /\ \A j \in 1..(Len(gOut) - 1) : WinOffset(j + 1) = WinOffset(j) + WinLength(j)
    /\ WinOffset(Len(gOut)) + WinLength(Len(gOut)) = S

\* C3: for every random-access File of size S and every K with 0 < K < S,
\* SegmentBySize returns exactly ceil(S/K) fragments whose windows, relative
\* to the start of the parent's content, are pairwise disjoint and cover
\* exactly [0, S), wherever the content starts in the backing source; for
\* S = 10485760, K = 3145728 the offsets are 0, 3145728, 6291456, 9437184
\* and the lengths 3145728, 3145728, 3145728, 1048576.
C3_FragmentsTile ==
    SegmentedProperly
    => /\ gErr = "nil"
       /\ Len(gOut) = CeilDiv(gParent.Size, gK)
       /\ Tiles(gParent.Size)
       /\ gParent.Size = ExampleSize
            => /\ [j \in 1..Len(gOut) |-> WinOffset(j)] = <<0, 3145728, 6291456, 9437184>>
               /\ [j \in 1..Len(gOut) |-> WinLength(j)]
                    = <<3145728, 3145728, 3145728, 1048576>>

\* the same for a File whose content starts at position 0 of its source
C3_FragmentsTileFromZero ==
    gStart = 0 => C3_FragmentsTile

-----------------------------------------------------------------------------
(* C4 *)

\* the events of hLog that are POST attempts, Handshakes
PostsOf(log) == {e \in 1..Len(log) : log[e].op = "POST"}

HandshakesOf(log) == {e \in 1..Len(log) : log[e].op = "Handshake"}

\* the batch handed to Send holds a non-empty File over a one-shot stream
HasOneShot ==
    \E j \in 1..Len(hBatch) :
        hBatch[j].Size > 0 /\ hBatch[j].r /\ ~hBatch[j].ra /\ ~hBatch[j].filePath

ErrNotResettable == "Unable to Reset a non-ReadAt reader"

\* Send has returned from a call with retry enabled on such a batch
C4_Case == hpc = "returned" /\ hs.RetryCount > 0 /\ HasOneShot

-----------------------------------------------------------------------------
(* C5 *)

\* every File of the batch can be reset
AllResettable ==
    \A j \in 1..Len(hBatch) : hBatch[j].ra \/ hBatch[j].filePath

\* every File of the batch is reset between the events a and b of the log
ResetBetween(a, b) ==
    \A j \in 1..Len(hBatch) :
        \E e \in (a + 1)..(b - 1) :
            hLog[e].op = "Reset" /\ hLog[e].file = j /\ hLog[e].err = "nil"

\* the POST q follows the POST p with no POST between them
NextPost(p, q) ==
    /\ p \in PostsOf(hLog) /\ q \in PostsOf(hLog) /\ p < q
    /\ \A e \in (p + 1)..(q - 1) : hLog[e].op # "POST"

\* the POST q, if it writes a File, writes it from the start of its window
FromStart(q) ==
    \A j \in 1..Len(hLog[q].wrote) : hLog[q].wrote[j].from = hBatch[j].i

\* C5: in Send with retry enabled and a batch of resettable files, all files
\* are reset before the first attempt, and every attempt that follows a
\* failed attempt is preceded by a new Handshake with a fresh transaction id
\* and by a Reset of every file, so that the retry POST carries another
\* transaction id than the failed one and sends every file from the start
\* of its window.
C5_ResetAndHandshakeBeforeAttempts ==
    (hs.RetryCount > 0 /\ AllResettable /\ Len(hBatch) > 0)
    => /\ \A p \in PostsOf(hLog) :
            (\A e \in 1..(p - 1) : hLog[e].op # "POST") => ResetBetween(0, p)
       /\ \A p, q \in PostsOf(hLog) :
            (NextPost(p, q) /\ hLog[p].err # "nil")
            => /\ \E e \in (p + 1)..(q - 1) :
                    hLog[e].op = "Handshake" /\ hLog[e].err = "nil"
               /\ ResetBetween(p, q)
               /\ hLog[q].txid # hLog[p].txid
               /\ FromStart(q)

-----------------------------------------------------------------------------
(* C6 *)

\* the POST e wrote every File of the batch without error and got a 200
Succeeded(e) ==
    /\ hLog[e].op = "POST"
    /\ hLog[e].resp = "200"
    /\ hLog[e].err = "nil"
    /\ Len(hLog[e].wrote) = Len(hBatch)

\* C6: Send on a non-empty batch returns nil if and only if some attempt
\* wrote every file to the POST without error and received a 200; a missing
\* response or any other status is reported as an error; when every attempt
\* fails (the files being resettable) Send returns the error of the last
\* attempt made.
C6_NilIffSomeAttemptSucceeded ==
    (hpc = "returned" /\ Len(hBatch) > 0)
    => /\ hErr = "nil" <=> \E e \in PostsOf(hLog) : Succeeded(e)
       /\ (AllResettable /\ \A e \in PostsOf(hLog) : ~Succeeded(e))
            => \E e \in PostsOf(hLog) :
                  /\ \A d \in PostsOf(hLog) : d <= e
                  /\ hErr = hLog[e].err

\* the same for a session without retry
C6_NilIffSucceededNoRetry ==
    hs.RetryCount = 0 => C6_NilIffSomeAttemptSucceeded

-----------------------------------------------------------------------------
(* C7 *)

\* the POST requests built so far
Built == {p \in PostIds : tReq[p].pc = "built"}

\* C7: for every interleaving of a Handshake with POSTs started concurrently
\* on the same transaction, each POST request is built from a url and an
\* x-nifi-transaction-id that were both set by the same Handshake, never
\* from the url of one handshake and the transaction id of another; stated
\* for the runs in which no Handshake returned an error after it had set the
\* url.
C7_PostPairsUrlAndId ==
    ~tFailed => \A p \in Built :
                   [url |-> tReq[p].url, txid |-> tReq[p].txid] \in tPairs

-----------------------------------------------------------------------------
(* C8 *)

\* a Write or a flush has failed
WriteFailed == wBufErr \/ \E g \in Writers : wG[g].err = "write error"

\* C8: within one HTTPPostWriter the POST body is the concatenation of
\* complete wire records in the order in which their Write calls obtained
\* the writer: with several goroutines in Write and the flush timer running,
\* the bytes sent and the bytes buffered are, in this order, a prefix of the
\* records one after the other, and until a write fails they are all the
\* bytes accepted; no two records are interleaved, no byte is reordered.
C8_BodyIsRecordsInLockOrder ==
    /\ IsPrefix(wBody \o wBuf, Concat(wOrder))
    /\ ~WriteFailed => wBody \o wBuf = wAccepted

\* two goroutines wrote their records through the buffered writer and the
\* body holds both records whole
C8_Witness ==
    /\ wKind = "buffered"
    /\ Len(wOrder) = 2
    /\ wBody = Concat(wOrder)

-----------------------------------------------------------------------------
(* C9 *)

\* a call of Close is under way
InClose == wClose.pc \in {"locked", "closing", "waiting"}

\* C9: assuming the HTTP request eventually completes or fails, every call
\* to HTTPPostWriter.Close eventually returns, for the plain and the
\* buffered writer, after any number of preceding Writes, zero included;
\* stated for the first call of Close on a writer.
C9_CloseReturns == (InClose /\ wClose.closes = 0) ~> (wClose.pc = "idle")

\* the same for a writer on which a Write was begun before Close took the lock
C9_CloseReturnsAfterWrite ==
    (InClose /\ wClose.closes = 0 /\ ~wInit) ~> (wClose.pc = "idle")

-----------------------------------------------------------------------------
(* C10 *)

\* C10: for every File (sequential, random-access or path-backed) in any
\* read state, a second Close directly after a first Close returns no error,
\* consumes no further byte of the underlying source, and leaves position
\* and remaining as the first Close left them.
C10_SecondCloseIsNoOp ==
    [][(fOp.op = "Close" /\ fOp'.op = "Close")
        => /\ fOp'.err = "nil"
           /\ fOp'.took = 0
           /\ fFile'.i = fFile.i
           /\ fFile'.n = fFile.n]_vars

\* the same for the Files that are not path-backed
C10_SecondCloseIsNoOpUnlessPath ==
    [][(fOp.op = "Close" /\ fOp'.op = "Close" /\ ~fFile.filePath)
        => /\ fOp'.err = "nil"
           /\ fOp'.took = 0
           /\ fFile'.i = fFile.i
           /\ fFile'.n = fFile.n]_vars

-----------------------------------------------------------------------------
(* C11 *)

\* the content of the File of SpecFile: the Size bytes of its source from
\* the place it was made at
Content == Take(Drop(fData, fStart), fFile.Size)

\* Reset of a File with a random-access source or a path gives no error and
\* puts position and remaining back
ResetRestores ==
    /\ fOp'.err = "nil"
    /\ fFile'.i = fStart
    /\ fFile'.n = fFile.Size

\* Reset of a sequential File gives an error and moves nothing
ResetRefused ==
    /\ fOp'.err # "nil"
    /\ fFile'.i = fFile.i
    /\ fFile'.n = fFile.n

\* a Read that follows a Reset hands out the first bytes of the content
ReadsFromStart ==
    /\ IsPrefix(fOp'.bytes, Content)
    /\ Content # <<>> => fOp'.bytes # <<>>

\* C11: for every File backed by a random-access source or a deferred path,
\* after any sequence of Read and Close calls, Reset returns no error and
\* restores position to the original start and remaining to Size, and the
\* read that follows returns the same bytes as the first read did; for a
\* sequential-only File Reset returns an error and changes neither position
\* nor remaining.
C11_ResetRestoresOrRefuses ==
    [][/\ fOp'.op = "Reset"
          => IF fFile.ra \/ fFile.filePath THEN ResetRestores ELSE ResetRefused
       /\ (fOp.op = "Reset" /\ fOp'.op = "Read" /\ (fFile.ra \/ fFile.filePath))
          => ReadsFromStart]_vars

\* the same without the path-backed Files and without the empty sequential
\* Files
C11_ResetRestoresOrRefusesInMemory ==
    [][/\ (fOp'.op = "Reset" /\ ~fFile.filePath)
          => IF fFile.ra THEN ResetRestores
             ELSE fFile.Size > 0 => ResetRefused
       /\ (fOp.op = "Reset" /\ fOp'.op = "Read" /\ fFile.ra /\ ~fFile.filePath)
          => ReadsFromStart]_vars

\* the read after Close and Reset of a path-backed File
C11_PathReadAfterCloseAndReset ==
    [][(fOp.op = "Reset" /\ fOp'.op = "Read" /\ fFile.filePath) => ReadsFromStart]_vars

-----------------------------------------------------------------------------
(* C12 *)

\* the position a File was made with: 0 for a reader that is no Seeker
Origin == IF fFile.r THEN 0 ELSE fStart

\* remaining lies between 0 and Size, and position and remaining add up to
\* the end of the content
FileBounds ==
    /\ 0 <= fFile.n
    /\ fFile.n <= fFile.Size
    /\ fFile.i + fFile.n = Origin + fFile.Size

\* what a Read with a buffer of k bytes does to the File
ReadAccounts(k) ==
    /\ Len(fOp'.bytes) <= Min(k, fFile.n)
    /\ fFile'.n = fFile.n - Len(fOp'.bytes)
    /\ fFile'.i = fFile.i + Len(fOp'.bytes)
    /\ fFile.n = 0 => fOp'.bytes = <<>> /\ fOp'.err = "EOF"

\* C12: in every state of a File reachable by Read, Reset, Close,
\* AddChecksum and SegmentBySize, 0 <= remaining <= Size and position +
\* remaining = original start + Size; each Read returns at most
\* min(len(buffer), remaining) bytes, decreases remaining and increases
\* position by exactly the bytes returned, and returns end-of-content with
\* zero bytes whenever remaining is 0.
C12_FileAccounts ==
    /\ []FileBounds
    /\ [][\A k \in 1..MaxBuf : FRead(k) => ReadAccounts(k)]_vars

\* the same for a File SegmentBySize was not called on
C12_FileAccountsUnsegmented ==
    /\ [](fSegs = 0 => FileBounds)
    /\ [][fSegs = 0 => \A k \in 1..MaxBuf : FRead(k) => ReadAccounts(k)]_vars

-----------------------------------------------------------------------------
(* C13 *)

\* the File is sequential and its source holds the whole content
WholeSequential == fFile.r /\ Len(fData) >= fStart + fFile.Size

\* the bytes of the content read from the source so far
BytesRead == fPos - fStart

\* C13: closing a sequential File after k bytes have been read consumes
\* exactly Size - k further bytes of the source, so that the stream is left
\* at the first byte after the record; after Close the File stays exhausted
\* and every Read returns end-of-content with zero bytes.
C13_CloseSkipsTheRest ==
    [][WholeSequential
       => /\ fOp'.op = "Close"
             => /\ fOp'.took = fFile.Size - BytesRead
                /\ fPos' = fStart + fFile.Size
                /\ fFile'.n = 0
                /\ fOp'.err = "nil"
          /\ fFile.n = 0 => fFile'.n = 0
          /\ (fFile.n = 0 /\ fOp'.op = "Read")
             => fOp'.bytes = <<>> /\ fOp'.err = "EOF" /\ fOp'.took = 0]_vars

\* a sequential File of which one byte was read and the rest skipped by Close
C13_Witness ==
    /\ WholeSequential
    /\ fOp.op = "Close"
    /\ fOp.took > 0
    /\ fOp.took < fFile.Size
    /\ fPos = fStart + fFile.Size

\* a Read after the Close of a sequential File with content
C13_WitnessReadAfterClose ==
    /\ WholeSequential
    /\ fOp.op = "Read"
    /\ fOp.err = "EOF"
    /\ fOp.bytes = <<>>
    /\ fFile.Size > 0
    /\ fPos = fStart + fFile.Size

-----------------------------------------------------------------------------
(* C14 *)

\* the bytes a writeTo without error has written are the attribute header,
\* the Size as 8 bytes and Size bytes of content
WroteWholeRecord ==
    /\ IsPrefix(AttrsWriteTo(fFile.Attrs) \o PutU64(fFile.Size), fOp'.bytes)
    /\ Len(fOp'.bytes) = Len(AttrsWriteTo(fFile.Attrs)) + 8 + fFile.Size

\* C14: for every File in every read state, a wire encode (writeTo) that
\* returns no error has written the attribute header, an 8-byte big-endian
\* length equal to Size, then exactly Size content bytes: a record whose
\* declared length differs from the content bytes that follow is never
\* emitted as a success.
C14_EncodedLengthMatchesContent ==
    [][(fOp'.op = "writeTo" /\ fOp'.err = "nil") => WroteWholeRecord]_vars

\* the same for a File that is encoded before anything of it was read and
\* whose source holds the whole content
C14_EncodedLengthMatchesContentUnread ==
    [][(fOp'.op = "writeTo" /\ fOp'.err = "nil" /\ fFile.n = fFile.Size
        /\ Len(fData) >= fStart + fFile.Size)
       => WroteWholeRecord]_vars

-----------------------------------------------------------------------------
(* C15 *)

\* ReadFile has returned a File
Decoded == rpc = "decoded" /\ rErr = "nil"

\* the 8 bytes of the length field of the input
LengthField == SubSeq(rIn, rHdr + 1, rHdr + 8)

\* the input stands behind the length field, the File has the length of the
\* field as its Size and all of it remaining, and reads at random exactly
\* when the input does
DecodedFile ==
    /\ rOp = NoOp => rPos = rHdr + 8
    /\ rFile.Size >= 0
    /\ PutU64(rFile.Size) = LengthField
    /\ rOp = NoOp => rFile.n = rFile.Size
    /\ rFile.ra = rKind.readerAt

\* C15: ReadFile consumes exactly the attribute header and the 8-byte
\* length and no content byte; the File it returns has remaining = Size =
\* the decoded length, and supports random access and Reset exactly when the
\* input supports random access.
C15_ReadFileStopsBeforeContent ==
    /\ [](Decoded => DecodedFile)
    /\ [][(Decoded /\ rOp'.op = "Reset") => (rOp'.err = "nil" <=> rKind.readerAt)]_vars

\* the same for lengths below 2^63 and, as to Reset, for Files with content
C15_ReadFileStopsBeforeContentInRange ==
    /\ [](Decoded /\ LengthField[1] < 128 => DecodedFile)
    /\ [][(Decoded /\ rOp'.op = "Reset" /\ rFile.Size > 0)
          => (rOp'.err = "nil" <=> rKind.readerAt)]_vars

-----------------------------------------------------------------------------
(* C16 *)

\* the File of SpecVerify names a checksum type that getChecksumFunc knows
SupportedType ==
    /\ Get(fFile.Attrs, N_checksumType) # <<>>
    /\ getChecksumFunc(Get(fFile.Attrs, N_checksumType))

\* C16: for a File with Size > 0 whose attributes contain a supported
\* checksumType, the first Read moves the checksum state from uninitialized
\* to computing without any other call, so that a Verify after the whole
\* content was read yields match or mismatch and never missing; when
\* checksumType is absent the state becomes unverified.
C16_FirstReadStartsChecksum ==
    [][/\ (fOp'.op = "Read" /\ fFile.Size > 0 /\ fCkStatus = "cksumPreinit")
          => /\ SupportedType => fCkStatus' = "cksumInit"
             /\ Get(fFile.Attrs, N_checksumType) = <<>> => fCkStatus' = "cksumUnverified"
       /\ (fOp'.op = "Verify" /\ fFile.Size > 0 /\ SupportedType /\ fOp.op = "Read"
           /\ fFile.n = 0)
          => fOp'.err # "Missing checksum"]_vars

\* Read leaves the checksum state as it is, and only ChecksumInit leaves the
\* uninitialized state
C16_OnlyChecksumInitStarts ==
    [][/\ fOp'.op = "Read" => fCkStatus' = fCkStatus
       /\ (fCkStatus = "cksumPreinit" /\ fCkStatus' # "cksumPreinit")
          => fOp'.op = "ChecksumInit"]_vars

-----------------------------------------------------------------------------
(* C17 *)

\* the checksum was found right or wrong
Terminal == fCkStatus \in {"cksumPassed", "cksumFailed"}

\* the state is kept and Verify answers as before
TerminalKept ==
    /\ fCkStatus' = fCkStatus
    /\ fOp'.op = "Verify"
       => fOp'.err = IF fCkStatus = "cksumPassed" THEN "nil" ELSE "Mismatching checksum"

\* C17: once the checksum state is passed or failed, no sequence of Read,
\* Reset, Close, Verify or checksum-initialisation calls returns it to
\* computing or moves it to the other terminal state, and every later Verify
\* returns the same result.
C17_TerminalStateIsFinal ==
    [][Terminal => TerminalKept]_vars

\* the same for Read, Reset, Close and Verify
C17_TerminalStateIsFinalWithoutInit ==
    [][(Terminal /\ fOp'.op # "ChecksumInit") => TerminalKept]_vars

-----------------------------------------------------------------------------
(* C18 *)

\* the digest of the bytes Read has returned since the checksum was started
\* is the checksum attribute
DigestMatches == Hex(Sum(fCk)) = Get(fFile.Attrs, N_checksum)

C18_WitnessPartRead ==
    /\ fOp.op = "Verify"
    /\ fOp.err = "Mismatching checksum"
    /\ Get(fFile.Attrs, N_checksum) = Hex(Sum(Content))
    /\ fCk # <<>>
    /\ Len(fCk) < fFile.Size

\* a File with content and no checksum type was verified
C18_WitnessMissing ==
    /\ fOp.op = "Verify"
    /\ fOp.err = "Missing checksum"
    /\ fCkStatus = "cksumUnverified"
    /\ fFile.Size > 0

-----------------------------------------------------------------------------
(* C19 *)

\* AddChecksum(cksum) is refused: the File is sequential or the checksum
\* type is not known
Refused(cksum) == fFile.r \/ ~getChecksumFunc(cksum)

\* the call returned an error
ReturnedError == fOp'.err \notin {"nil", "panic", "hang"}

\* nothing of the File or its source was touched
Untouched == fFile' = fFile /\ fPos' = fPos /\ fFh' = fFh

\* C19: AddChecksum on a File with content that is backed by a one-shot
\* sequential stream, or called with an unknown algorithm name, returns an
\* error without panicking, leaves attributes, position and remaining
\* unchanged and consumes no byte of the stream; on a File of Size 0 it
\* returns no error and changes nothing either.
C19_AddChecksumRefuses ==
    [][\A cksum \in ChecksumTypes :
          (FAddChecksum(cksum) /\ Refused(cksum))
          => /\ Untouched
             /\ IF fFile.Size > 0 THEN ReturnedError ELSE fOp'.err = "nil"]_vars

\* a sequential File of which one byte was read is refused
C19_Witness ==
    /\ fOp.op = "AddChecksum"
    /\ fOp.err = "Reader must implement a ReadAt interface"
    /\ fFile.r
    /\ fFile.n > 0
    /\ fFile.n < fFile.Size

\* an unknown checksum type is refused on a random-access File
C19_WitnessUnknownType ==
    /\ fOp.op = "AddChecksum"
    /\ fOp.err = "Unable to find checksum type"
    /\ fFile.ra

\* C19 as stated: the error is returned for every File size
C19_AddChecksumRefusesEverySize ==
    [][\A cksum \in ChecksumTypes :
          (FAddChecksum(cksum) /\ Refused(cksum)) => (Untouched /\ ReturnedError)]_vars

-----------------------------------------------------------------------------
(* C20 *)

\* the File carries the checksum of its whole declared window under the
\* type cksum, and position and remaining are as before
StampedWholeWindow(cksum) ==
    /\ Len(Content) = fFile.Size
    /\ Get(fFile'.Attrs, N_checksumType) = cksum
    /\ Get(fFile'.Attrs, N_checksum) = Hex(Sum(Content))
    /\ fFile'.i = fFile.i
    /\ fFile'.n = fFile.n

\* C20: on a random-access or path-backed File, an AddChecksum that returns
\* no error has set checksumType and checksum to the digest of the File's
\* full declared window of Size bytes, however many bytes had already been
\* read and even if the backing source is shorter than the declared window,
\* and leaves position and remaining unchanged.
C20_AddChecksumCoversWindow ==
    [][\A cksum \in ChecksumTypes :
          (FAddChecksum(cksum) /\ (fFile.ra \/ fFile.filePath) /\ fOp'.err = "nil")
          => StampedWholeWindow(cksum)]_vars

\* the same for a File with content of which nothing was read yet, on a
\* source that holds the whole window
C20_AddChecksumCoversWindowUnread ==
    [][\A cksum \in ChecksumTypes :
          (FAddChecksum(cksum) /\ (fFile.ra \/ fFile.filePath) /\ fOp'.err = "nil"
           /\ fFile.Size > 0 /\ fFile.n = fFile.Size /\ Len(Content) = fFile.Size)
          => StampedWholeWindow(cksum)]_vars

-----------------------------------------------------------------------------
(* C21 *)

\* the media type of one element of an Accept header: what stands before
\* the parameters, without the surrounding spaces
MediaType(element) == TrimSpace(Split(element, 59)[1])

\* the Accept header lists application/flowfile-v3
ListsFlowFile3(accept) ==
    \E i \in DOMAIN Split(accept, 44) : MediaType(Split(accept, 44)[i]) = ContentTypeFF3

\* the partition size a Max-Partition-Size header advertises, 0 when the
\* header is absent or not a number
Advertised(mps) ==
    IF mps = <<>> THEN 0
    ELSE IF ParseUint(mps, 0) < 0 THEN 0
    ELSE ParseUint(mps, 0)

\* the answer that lets a Handshake succeed
GoodReply(reply) ==
    /\ ~reply.fail
    /\ reply.status = 200
    /\ ListsFlowFile3(reply.accept)
    /\ reply.version = <<51>>

\* C21, first half: Handshake returns nil exactly when the answer has
\* status 200, lists application/flowfile-v3 in Accept and carries the
\* protocol version "3"
C21_SuccessIffGoodReply ==
    kCalls > 0 => ((kErr = "nil") <=> GoodReply(kReply))

\* C21, second half without the partition size: after a successful
\* Handshake the session holds the final URL, the transaction id sent in
\* the probe and the Server header
C21_SessionAfterSuccess ==
    (kCalls > 0 /\ kErr = "nil") =>
        /\ kHs.url = kReply.url
        /\ kHs.TransactionID = kTxid
        /\ kHs.Server = kReply.server

\* C21, the partition size: after a successful Handshake MaxPartitionSize
\* is the advertised size, and 0 when the header is absent or not a number
C21_PartitionSizeAfterSuccess ==
    (kCalls > 0 /\ kErr = "nil") => kHs.MaxPartitionSize = Advertised(kReply.mps)

\* C21: Handshake succeeds exactly when the answer to its HEAD request has
\* status 200, an Accept header listing application/flowfile-v3 and the
\* protocol version "3"; after a success the session holds the final URL,
\* the fresh transaction id, the Server header and the advertised
\* Max-Partition-Size, 0 when that header is absent or not a usable number
C21_HandshakeNegotiates ==
    /\ C21_SuccessIffGoodReply
    /\ C21_SessionAfterSuccess
    /\ C21_PartitionSizeAfterSuccess

-----------------------------------------------------------------------------
(* C22 *)

\* Terminate closed the pipe before any Close did: the body carries the
\* error "Post Terminated"
Aborted == wTerm /\ wPipe = "err"

\* a Terminate that finds the body still open leaves it in error
C22_TerminateStoresError ==
    [][(~wTerm /\ wTerm' /\ wPipe = "open") => wPipe' = "err"]_vars

\* the error of an aborted body is never replaced, whatever Close, the
\* writers and the flush loop do afterwards
C22_ErrorIsKept == [][Aborted => Aborted']_vars

\* a request whose body is aborted while it is being sent ends with an
\* error, and no aborted body was answered with status 200
C22_RequestFails ==
    /\ [][(Aborted /\ wPost = "doing" /\ wPost' # "doing") => wPostErr' # "nil"]_vars
    /\ [](Aborted => wResp # "200")

\* C22: after Terminate was called on an HTTPPostWriter whose body is still
\* open, the HTTP task that reads the body gets an error and never a clean
\* end of the body, also when Close is called afterwards; the POST is never
\* completed as a valid payload
C22_TerminateAborts ==
    /\ C22_TerminateStoresError
    /\ C22_ErrorIsKept
    /\ C22_RequestFails

\* C22 witness: a POST whose body was partly sent was terminated, Close was
\* called afterwards and returned the error of the request
C22_Witness ==
    /\ Aborted
    /\ wBody # <<>>
    /\ wNil
    /\ wPost = "done"
    /\ wClose.closes > 0
    /\ wClose.err # "nil"

-----------------------------------------------------------------------------
(* C23 *)

\* Send has returned from a call with retry enabled on a batch of
\* resettable Files, and no attempt succeeded
C23_Case ==
    /\ hpc = "returned"
    /\ hs.RetryCount > 0
    /\ Len(hBatch) > 0
    /\ AllResettable
    /\ \A e \in PostsOf(hLog) : ~Succeeded(e)

\* Send waited RetryDelay between the events a and b of the log
SleepBetween(a, b) == \E e \in (a + 1)..(b - 1) : hLog[e].op = "Sleep"

\* C23: when every attempt fails and every File can be reset, Send with
\* RetryCount = R > 0 makes exactly 1 + R POST attempts, waits RetryDelay
\* between two consecutive attempts, and returns
C23_OnePlusRetryCountAttempts ==
    C23_Case =>
        /\ Cardinality(PostsOf(hLog)) = 1 + hs.RetryCount
        /\ \A a, b \in PostsOf(hLog) : a < b => SleepBetween(a, b)

\* what the code does in that case: one attempt, whatever RetryCount is
C23_OneAttempt == C23_Case => Cardinality(PostsOf(hLog)) = 1

-----------------------------------------------------------------------------
(* C24 *)

\* the saveRegular calls that created the target file
Creators == {p \in DOMAIN vProc : vProc[p].created}

\* every Save call has returned
AllReturned == \A p \in DOMAIN vProc : vProc[p].pc = "returned"

\* one call at most creates the target, and a call that found the file in
\* place goes on without an error
C24_OneCreator ==
    /\ Cardinality(Creators) <= 1
    /\ (\E p \in DOMAIN vProc : vProc[p].pc # "start") => Cardinality(Creators) = 1
    /\ \A p \in DOMAIN vProc : vProc[p].err = "nil" /\ vProc[p].pc # "panic"

\* only the creator writes zeros, and no Write of the zero fill covers an
\* offset that a fragment has written
C24_ZerosBeforeFragments ==
    [][\A p \in DOMAIN vProc :
          (vProc[p].pc = "zeros" /\ vProc'[p].z < vProc[p].z)
          => p \in Creators /\ ZeroSpan(p) \cap vMarks = {}]_vars

\* once every call has returned, the target holds the parent
C24_ParentRestored == AllReturned => vDisk.data = vOrig

\* C24: for every set of fragments that tile a parent and every
\* interleaving of concurrent Save calls into the same target, exactly one
\* call creates and zero-fills the target, every other call takes the
\* existing file as success, no zero-fill write lands on bytes a fragment
\* has written, and once all calls have returned the target holds the
\* content of the parent
C24_ConcurrentSaveRestoresParent ==
    /\ []C24_OneCreator
    /\ C24_ZerosBeforeFragments
    /\ []C24_ParentRestored

\* C24 witness: two fragments were saved, the call of the second one
\* created the file, the call of the first one polled while the file was
\* short, both have returned
C24_Witness ==
    /\ AllReturned
    /\ Len(vFrags) = 2
    /\ vProc[2].created
    /\ vProc[1].i > 0
    /\ vDisk.data = vOrig

-----------------------------------------------------------------------------
(* C25 *)

\* no saveRegular call ends in a panic: one that gives up returns
C25_NoPanic == \A p \in DOMAIN vProc : vProc[p].pc # "panic"

\* every saveRegular call returns
C25_Terminates == <>(\A p \in DOMAIN vProc : vProc[p].pc = "returned")

\* C25: the wait of saveRegular for the target file to reach
\* segment.original.size makes a bounded number of polls and then gives up
\* with an error; saveRegular returns in every case, also when the file
\* never reaches that size or can never be stat'ed
C25_WaitIsBounded ==
    /\ []C25_NoPanic
    /\ C25_Terminates

\* with a target that can be stat'ed and is not left over from an earlier
\* run, every call returns
C25_TerminatesOnFreshTarget ==
    (vEnv = "ok" /\ ~vDisk.exists) => C25_Terminates

-----------------------------------------------------------------------------
(* C26 *)

\* where record k ends in the input
Boundary(k) == Len(StreamOf(Take(sRecs, k)))

\* a Scan that follows a record leaves that record behind it: the header
\* it decodes starts where the record ends, whatever part of the payload
\* the consumer has read
C26_ScanDrainsTheRest ==
    [][(sState = "have-record" /\ sScans' = sScans + 1)
       => FileClose(sFile, sIn, sPos, "none").pos = Boundary(sScans)]_vars

\* the record at hand after the k-th Scan is the k-th record, and while
\* records are left a Scan yields one
C26_NextRecordExposed ==
    /\ sState = "have-record"
         => /\ sScans <= Len(sRecs)
            /\ sFile.Attrs = sRecs[sScans].attrs
            /\ sFile.Size = Len(sRecs[sScans].content)
    /\ sScans \in 1..Len(sRecs) => sState = "have-record"

\* C26: when the consumer calls Scan again after reading any number of
\* bytes of the payload of the record at hand, the unread rest is drained
\* and the next successful Scan exposes the attributes of the next record;
\* no payload byte of a skipped record is taken for a part of a header
C26_ScanSkipsUnreadPayload ==
    /\ C26_ScanDrainsTheRest
    /\ []C26_NextRecordExposed

\* the same for a sequential-only input
C26_ScanSkipsUnreadPayloadSeq ==
    /\ [][(sKind = "seq" /\ sState = "have-record" /\ sScans' = sScans + 1)
          => FileClose(sFile, sIn, sPos, "none").pos = Boundary(sScans)]_vars
    /\ [](sKind = "seq" => C26_NextRecordExposed)

-----------------------------------------------------------------------------
(* C27 *)

\* where the next Scan starts to decode: behind the record at hand, which
\* it closes first
ScanFrom ==
    IF sState = "have-record" THEN FileClose(sFile, sIn, sPos, "none").pos ELSE sPos

\* the input holds something at the boundary behind its last record, and
\* it is no header
BadBoundary == Len(sIn) > Boundary(Len(sRecs))

\* a Scan that decodes at the bad boundary returns false and leaves an error
C27_ScanReportsFraming ==
    [][(BadBoundary /\ sState \in {"idle", "have-record"} /\ sScans' = sScans + 1
          /\ ScanFrom = Boundary(Len(sRecs)))
       => /\ sState' = "errored"
          /\ sOp'.op = "Scan" /\ sOp'.err = "false"
          /\ sErr' # "nil"]_vars

\* after the error every Scan returns false, no record is yielded and the
\* error stays
C27_ErrorIsFinal ==
    [][sState = "errored"
       => /\ sState' = "errored"
          /\ sErr' = sErr /\ sErr # "nil"
          /\ sScans' = sScans + 1 => (sOp'.op = "Scan" /\ sOp'.err = "false")]_vars

\* the end of a well-formed input is told apart: there Scan leaves no error
C27_CleanEndHasNoError == sState = "exhausted" => sErr = "nil"

\* C27: when the bytes at a record boundary are no valid header (another
\* magic, a length-prefixed field cut short), Scan returns false, the error
\* accessor returns the framing error, which differs from the no-error of a
\* clean end, and every later Scan returns false and yields no record
C27_FramingErrorStopsScan ==
    /\ C27_ScanReportsFraming
    /\ C27_ErrorIsFinal
    /\ []C27_CleanEndHasNoError

\* C27 witness: after one record a header cut short was met on a
\* sequential input, and Scan was called again after the error
C27_Witness ==
    /\ sKind = "seq"
    /\ Len(sRecs) = 1
    /\ sState = "errored"
    /\ sErr = "ErrorInvalidFlowFileHeader"
    /\ sScans > Len(sRecs) + 1
    /\ sOp.op = "Scan" /\ sOp.err = "false"

-----------------------------------------------------------------------------
(* C28 *)

RECURSIVE ApplySets(_, _)
\* h after Set was called for every attribute of seq in turn
ApplySets(h, seq) ==
    IF Len(seq) = 0 THEN h
    ELSE ApplySets(Set(h, seq[1].Name, seq[1].Value), Tail(seq))

\* in is the header of h0 cut short behind its magic
CutOf(in, h0) ==
    /\ Len(in) >= Len(FlowFile3Header)
    /\ Len(in) < Len(AttrsWriteTo(h0))
    /\ in = Take(AttrsWriteTo(h0), Len(in))

\* end-of-stream is returned only for an empty input and for the end marker
C28_EndOfStream ==
    (aOp.op = "ReadFrom" /\ aOp.err = "EOF")
    => (aOp.in = <<>> \/ Take(aOp.in, 7) = FlowFileEOF)

\* bytes that start with neither magic give the no-header error
C28_NoHeader ==
    (aOp.op = "ReadFrom" /\ aOp.in # <<>>
        /\ Take(aOp.in, 7) \notin {FlowFile3Header, FlowFileEOF})
    => aOp.err = "ErrorNoFlowFileHeader"

\* a header cut short gives the malformed-header error, and what was stored
\* are whole attributes of it
C28_CutHeader ==
    aOp.op = "ReadFrom" =>
        \A h0 \in AttrSeqs :
            CutOf(aOp.in, h0)
            => /\ aOp.err = "ErrorInvalidFlowFileHeader"
               /\ \E k \in 0..Len(h0) : aH = ApplySets(aOp.before, Take(h0, k))

\* C28: Attributes.ReadFrom returns the clean end-of-stream only for an
\* empty input or one that begins with NiFiEOF, the no-header error when
\* the first 7 bytes are anything other than NiFiFF3, and the
\* malformed-header error whenever the count or a length-prefixed name or
\* value cannot be read in full: for a header cut short it never returns
\* success and never stores a padded or shortened name or value
C28_ReadFromClassifies ==
    /\ C28_EndOfStream
    /\ C28_NoHeader
    /\ C28_CutHeader

\* a cut header for which ReadFrom returns nil was cut inside a value, which
\* is stored filled up with zero bytes
C28_SuccessStoresPaddedValue ==
    aOp.op = "ReadFrom" =>
        \A h0 \in AttrSeqs :
            (CutOf(aOp.in, h0) /\ aOp.err = "nil")
            => \E j \in 1..Len(aH) : aH[j].Value # <<>> /\ aH[j].Value[Len(aH[j].Value)] = 0

-----------------------------------------------------------------------------
(* C29 *)

\* the value Set stores under a name
Stored(name, val) == IF name = N_filename THEN PathSplitFile(val) ELSE val

RECURSIVE FirstValue(_, _)
\* the value of the first entry called name, the empty string without one
FirstValue(h, name) ==
    IF Len(h) = 0 THEN <<>>
    ELSE IF h[1].Name = name THEN h[1].Value
    ELSE FirstValue(Tail(h), name)

\* Set on a name that is there replaces the value where it stands, on
\* another name it appends
C29_SetReplacesOrAppends ==
    aOp.op = "Set" =>
        IF \E j \in 1..Len(aOp.before) : aOp.before[j].Name = aOp.name
        THEN /\ Len(aH) = Len(aOp.before)
             /\ \A j \in 1..Len(aH) :
                   /\ aH[j].Name = aOp.before[j].Name
                   /\ aH[j].Value = IF aH[j].Name = aOp.name
                                    THEN Stored(aOp.name, aOp.val)
                                    ELSE aOp.before[j].Value
        ELSE aH = Append(aOp.before, Attribute(aOp.name, Stored(aOp.name, aOp.val)))

\* Get returns the value of the first entry of that name, or the empty string
C29_GetFirst == \A nm \in AttrNames : Get(aH, nm) = FirstValue(aH, nm)

\* Unset removes every entry of that name, keeps the order of the others
\* and returns true exactly when it removed something
C29_UnsetRemoves ==
    aOp.op = "Unset" =>
        /\ aH = SelectSeq(aOp.before, LAMBDA e : e.Name # aOp.name)
        /\ aOp.ok <=> Len(aH) < Len(aOp.before)

\* C29: from an empty attribute set, after any sequence of Set, Unset and
\* ReadFrom no two entries have the same name; Set on a name that is there
\* replaces its value in place and keeps the order, on a new name it appends
\* at the end; Get returns the value of the first entry of the name or the
\* empty string; Unset removes every entry of the name, keeps the order of
\* the rest and returns true exactly when something was removed
C29_AttributesAreAMap ==
    /\ NoDuplicateNames(aH)
    /\ C29_SetReplacesOrAppends
    /\ C29_GetFirst
    /\ C29_UnsetRemoves

\* C29 witness: Set replaced the value of the first of two entries
C29_Witness ==
    /\ aOp.op = "Set"
    /\ Len(aOp.before) = 2
    /\ aOp.before[1].Name = aOp.name
    /\ aH # aOp.before
    /\ Len(aH) = 2

\* C29 witness: Unset removed the first of two entries
C29_WitnessUnset ==
    /\ aOp.op = "Unset"
    /\ aOp.ok
    /\ Len(aOp.before) = 2
    /\ aH = <<aOp.before[2]>>

-----------------------------------------------------------------------------
(* C30 *)

\* C30: after any sequence of Set, ReadFrom, UnmarshalBinary and
\* UnmarshalJSON, the value stored under filename holds no '/'
C30_FilenameHasNoSlash == FilenameIsSanitized(aH)

\* the same as long as UnmarshalJSON was not the last call to store
\* attributes: Set and the binary decoders keep the filename clean
C30_FilenameHasNoSlashBinary ==
    [][(FilenameIsSanitized(aH) /\ aOp'.op # "UnmarshalJSON") => FilenameIsSanitized(aH')]_vars

-----------------------------------------------------------------------------
(* C31 *)

\* SegmentBySize made fragments: the File was not returned as it was
MadeFragments ==
    /\ gpc = "done"
    /\ gErr = "nil"
    /\ gK # 0
    /\ gParent.Size >= gK

\* u is a uuid generated during the call
FreshUuid(u) == \E k \in 2..gUuid : u = Uuid(k)

\* the identifier of the family
IdentifierOf(out) == Get(out[1].Attrs, N_fragment_identifier)

C31_SharedIdentifier ==
    MadeFragments
    => /\ \A j \in 1..Len(gOut) :
            Get(gOut[j].Attrs, N_fragment_identifier) = IdentifierOf(gOut)
       /\ IF Get(gParent.Attrs, N_uuid) = <<>>
          THEN FreshUuid(IdentifierOf(gOut))
          ELSE IdentifierOf(gOut) = Get(gParent.Attrs, N_uuid)

C31_OwnUuid ==
    MadeFragments
    => \A j \in 1..Len(gOut) :
         /\ FreshUuid(Get(gOut[j].Attrs, N_uuid))
         /\ Get(gOut[j].Attrs, N_uuid) # IdentifierOf(gOut)
         /\ \A l \in 1..Len(gOut) :
              l # j => Get(gOut[j].Attrs, N_uuid) # Get(gOut[l].Attrs, N_uuid)

C31_CountAndIndex ==
    MadeFragments
    => \A j \in 1..Len(gOut) :
         /\ Get(gOut[j].Attrs, N_fragment_count) = Itoa(Len(gOut))
         /\ Get(gOut[j].Attrs, N_fragment_index) = Itoa(j)

C31_OriginalSize ==
    MadeFragments
    => \A j \in 1..Len(gOut) :
         Get(gOut[j].Attrs, N_segment_original_size) = Itoa(gParent.Size)

C31_Offset ==
    MadeFragments
    => \A j \in 1..Len(gOut) :
         Get(gOut[j].Attrs, N_fragment_offset) = Itoa(WinOffset(j))

\* C31: the fragments of one SegmentBySize call carry the same
\* fragment.identifier, the parent's uuid (a fresh one if it had none); each
\* has a uuid of its own, other than the parent's and every sibling's;
\* fragment.count is the number of fragments, fragment.index runs 1..count in
\* window order, fragment.offset is the offset of the window within the
\* parent's content and segment.original.size is the parent's Size.
C31_FragmentsDescribeThemselves ==
    /\ C31_SharedIdentifier
    /\ C31_OwnUuid
    /\ C31_CountAndIndex
    /\ C31_OriginalSize
    /\ C31_Offset

\* the same with the offset left out
C31_AllButOffset ==
    /\ C31_SharedIdentifier
    /\ C31_OwnUuid
    /\ C31_CountAndIndex
    /\ C31_OriginalSize

\* the offset for a File whose content starts at position 0 of its source
C31_OffsetFromZero ==
    gStart = 0 => C31_Offset

-----------------------------------------------------------------------------
(* C32 *)

\* Segment was called with 1 <= c <= S on a random-access File with S > 0
\* unread bytes
SegmentCase ==
    /\ gpc = "done"
    /\ gParent.ra
    /\ gParent.n > 0
    /\ 1 <= gCount /\ gCount <= gParent.n

\* C32: for every random-access File with S > 0 unread bytes and every count
\* c with 1 <= c <= S, Segment(file, c) splits the file into exactly c
\* fragments.
C32_SegmentMakesCountFragments ==
    SegmentCase => gErr = "nil" /\ Len(gOut) = gCount

\* an unread File is never split into more fragments than asked for
C32_AtMostCountFragments ==
    SegmentCase /\ gParent.n = gParent.Size => gErr = "nil" /\ Len(gOut) <= gCount

-----------------------------------------------------------------------------
(* C33 *)

\* the POST is not of application/flowfile-v3 and gives its Content-Length
AnonymousPost == ~IsFlowFileV3(qReq) /\ HasLength(qReq)

\* the first Scan yields a record without attributes
C33_OneRecord ==
    AnonymousPost /\ qOp.op = "Scan" /\ qScans = 1
    => qOp.err = "true" /\ qFile.Attrs = <<>>

\* the Scan after it reports exhaustion
C33_ThenExhausted ==
    AnonymousPost /\ qOp.op = "Scan" /\ qScans > 1
    => qOp.err = "false" /\ qState = "exhausted"

\* what was read of the record is the start of the body
C33_ReadsTheBody ==
    AnonymousPost /\ qState = "have-record"
    => IsPrefix(qGot, qReq.body)

\* the record ends where the body ends
C33_WholeBody ==
    AnonymousPost /\ qState = "have-record" /\ qOp.op = "Read" /\ qOp.err = "EOF"
    => qGot = qReq.body

\* C33: for a POST whose Content-Type is not application/flowfile-v3 and whose
\* Content-Length is N, the handler gets a Scanner that yields exactly one
\* record, without attributes, whose readable content is exactly the N bytes
\* of the body, and then reports exhaustion.
C33_AnonymousRecord ==
    /\ C33_OneRecord
    /\ C33_ThenExhausted
    /\ C33_ReadsTheBody
    /\ C33_WholeBody

\* the same for an empty body
C33_AnonymousRecordEmpty ==
    qReq.body = <<>> => C33_AnonymousRecord

\* the same with the content left out
C33_AllButContent ==
    /\ C33_OneRecord
    /\ C33_ThenExhausted
    /\ C33_ReadsTheBody

-----------------------------------------------------------------------------
(* C34 *)

\* the record of the example was encoded
ExampleEncoded == cA = ExampleAttrs /\ cC = ExampleContent /\ cpc # "start"

\* "NiFiFF3", 0x0002, 0x0004 "path", 0x0002 "./", 0x0008 "filename",
\* 0x0009 "abcd-efgh", the content length in 8 bytes of which the last is
\* low, the content
ExampleWire(low) ==
    FlowFile3Header \o <<0, 2>>
        \o <<0, 4>> \o N_path \o <<0, 2>> \o V_dot_slash
        \o <<0, 8>> \o N_filename \o <<0, 9>> \o V_abcd_efgh
        \o <<0, 0, 0, 0, 0, 0, 0, low>> \o ExampleContent

\* decoding the bytes gives the attributes and the content back
ExampleDecodes ==
    /\ cpc \in {"decoded", "read"} => cErr = "nil" /\ cFile.Attrs = ExampleAttrs
    /\ cpc = "read" => cOut = ExampleContent

\* C34: encoding a record with the attributes path = "./" and filename =
\* "abcd-efgh", in that order, and the content "this is a custom string for
\* flowfile" gives exactly "NiFiFF3", the attribute count 0x0002, 0x0004
\* "path", 0x0002 "./", 0x0008 "filename", 0x0009 "abcd-efgh", the content
\* length 0x0000000000000025 (37) and the content; decoding those bytes gives
\* the same attributes and content back.
C34_ExampleWire37 ==
    ExampleEncoded => cWire = ExampleWire(37) /\ ExampleDecodes

\* C34 amended: the content length on the wire is 0x0000000000000024 (36),
\* the number of bytes of the content.
C34_ExampleWire36 ==
    ExampleEncoded => cWire = ExampleWire(36) /\ ExampleDecodes

\* the example was encoded, decoded and read to its end
C34_Witness ==
    ExampleEncoded /\ cpc = "read" /\ cOut = ExampleContent /\ Len(cC) = 36

-----------------------------------------------------------------------------
(* C35 *)

\* the File that was encoded
EncodedFile == File(cA, 0, Len(cC), Len(cC), FALSE, TRUE, FALSE)

\* the bytes the encoder wrote before the first byte of the content
BytesBeforeContent == Len(cWire) - Len(cC)

\* C35: for every attribute set, HeaderSize of a File is the number of bytes
\* the wire encoder writes before the first content byte: the encoded
\* attribute block and the 8 bytes of the content length, 17 + the sum over
\* the attributes of 4 + len(name) + len(value).
C35_HeaderSizeIsEncodedSize ==
    cpc # "start"
    => /\ HeaderSize(EncodedFile) = BytesBeforeContent
       /\ HeaderSize(EncodedFile) = Len(AttrsWriteTo(cA)) + 8

\* the same for attributes whose count and lengths fit a uint16
C35_HeaderSizeIsEncodedSizeFits ==
    FitsUint16(cA) => C35_HeaderSizeIsEncodedSize

-----------------------------------------------------------------------------
(* C36 *)

\* the body of the request has ended cleanly: the pipe was closed without error
CleanEnd == wPipe = "eof"

\* C36: for a buffered POST writer, in every interleaving of Close with the
\* flush task, all bytes accepted by successful Write calls reach the request
\* body before its end-of-stream: the last flush of the buffer completes
\* before the pipe is closed, so the peer never gets a cleanly ended but
\* truncated body.
C36_FlushBeforeEndOfStream ==
    wKind = "buffered" /\ CleanEnd => wBody = wAccepted /\ wBuf = <<>> /\ ~wBufErr

\* the same for the plain writer, which has no buffer
C36_PlainWriterEndsWhole ==
    wKind = "plain" /\ CleanEnd => wBody = wAccepted

-----------------------------------------------------------------------------
(* C37 *)

\* the File was read to its end, reset and read to its end again while its
\* checksum was being computed, and then verified: the bytes Read returned
\* since the checksum was started are the content twice
VerifiedAfterSecondPass ==
    /\ fOp.op = "Verify"
    /\ fFile.Size > 0
    /\ fFile.n = 0
    /\ fResets > 0
    /\ Len(Content) = fFile.Size
    /\ fCk = Content \o Content

\* what Verify returns after the first pass over the content
AfterFirstPass == Verify(fFile, "cksumInit", Content).err

\* C37: for a resettable File whose streaming checksum is being computed,
\* reading the content to its end, calling Reset and reading it to its end
\* again leaves Verify with the result it has after the first pass: the
\* running digest covers one pass over the content, not both passes one
\* after the other.
C37_SecondPassVerifiesAsFirst ==
    VerifiedAfterSecondPass => fOp.err = AfterFirstPass

\* Verify after one pass compares the digest of the content
C37_FirstPassVerifies ==
    (fOp.op = "Verify" /\ fFile.Size > 0 /\ fFile.n = 0 /\ fCk = Content
        /\ fCkStatus \in {"cksumPassed", "cksumFailed"})
    => fOp.err = AfterFirstPass

-----------------------------------------------------------------------------
(* C38 *)

\* the fields of the session a POST is built from, and the two others that
\* Handshake sets
Negotiated(h) ==
    [url |-> h.url, TransactionID |-> h.TransactionID, Server |-> h.Server,
     MaxPartitionSize |-> h.MaxPartitionSize]

\* the last Handshake returned an error
HandshakeFailed == kCalls > 0 /\ kErr # "nil"

\* C38: a Handshake that returns an error leaves the session's url,
\* TransactionID, Server and MaxPartitionSize as they were before the call,
\* so that every later POST uses a url and a transaction id that come
\* together from one earlier successful Handshake.
C38_FailedHandshakeChangesNothing ==
    HandshakeFailed => Negotiated(kHs) = Negotiated(kOld)

\* the same without the url
C38_FailedHandshakeKeepsTheRest ==
    HandshakeFailed
    => /\ kHs.TransactionID = kOld.TransactionID
       /\ kHs.Server = kOld.Server
       /\ kHs.MaxPartitionSize = kOld.MaxPartitionSize

\* the same for a Handshake that got no answer or a status other than 200
C38_RefusedHandshakeChangesNothing ==
    (HandshakeFailed /\ (kReply.fail \/ kReply.status # 200))
    => Negotiated(kHs) = Negotiated(kOld)

-----------------------------------------------------------------------------
(* C39 *)

\* the last call was a Read on a fragment that was not closed itself
ReadOfOpenFragment == bOp # <<>> /\ bOp.op = "Read" /\ bOp.j \notin bClosed

\* the Read returned the bytes of the fragment's window and did not fail
ReadIsRight == bOp.bytes = bOp.window /\ bOp.err \in {"nil", "EOF"}

\* C39: the fragments of one SegmentBySize call can be read and closed in
\* any order and interleaving: reading or closing one fragment never changes
\* the bytes another fragment returns and never makes a later read of
\* another fragment fail, also when the fragments share one opened backing
\* file.
C39_FragmentsAreIndependent ==
    ReadOfOpenFragment => ReadIsRight

\* the same for fragments that do not hold the file handle of their parent
C39_FragmentsAreIndependentUnshared ==
    (ReadOfOpenFragment /\ ~bOp.shared) => ReadIsRight

\* a call on one fragment leaves the position and the remaining count of
\* every other fragment alone
C39_OthersKeepTheirPlace ==
    [][bpc = "segmented"
       => \A l \in 1..Len(bFrags) : l # bOp'.j => bFrags'[l] = bFrags[l]]_vars

-----------------------------------------------------------------------------
(* C40 *)

\* the saveRegular call of fragment p returned without error
SavedWithoutError(p) == vProc[p].pc = "returned" /\ vProc[p].err = "nil"

\* the target holds the bytes of fragment p at fragment.offset
WrittenAtOffset(p) ==
    /\ vProc[p].w = Len(vFrags[p].data)
    /\ Len(vDisk.data) >= offset(p) + Len(vFrags[p].data)
    /\ SubSeq(vDisk.data, offset(p) + 1, offset(p) + Len(vFrags[p].data)) = vFrags[p].data

\* the size the last Stat of the call found is not segment.original.size
WrongSize(p) == vProc[p].pc = "returned" /\ vProc[p].statSize # parentSize(p)

\* C40: saving a fragment returns no error only if the bytes of the fragment
\* were written into the target at fragment.offset; if the size of the
\* target is not segment.original.size when the wait ends, for instance
\* because a larger file is already at that path, an error is returned and
\* not success.
C40_NoErrorOnlyIfWritten ==
    \A p \in DOMAIN vProc :
        /\ SavedWithoutError(p) => WrittenAtOffset(p)
        /\ WrongSize(p) => vProc[p].err # "nil"

\* the same for a target that is not there before the first call
C40_NoErrorOnlyIfWrittenFresh ==
    \A p \in DOMAIN vProc :
        (SavedWithoutError(p) /\ (\E q \in DOMAIN vProc : vProc[q].created))
        => WrittenAtOffset(p)

====
